---------------------------- MODULE Spec2Model ----------------------------
(***************************************************************************)
(* mini-gfx-framework sandbox: the Scene Host (sandbox/main.ts), the five  *)
(* demo scenes' mount / cleanup lifecycle, and the CanvasSurfaceManager.   *)
(*                                                                         *)
(* JavaScript runs one task at a time.  A task (a DOM event, the           *)
(* resolution of a browser promise, an animation-frame callback) runs to   *)
(* its end and then the microtask queue is drained in FIFO order before    *)
(* the next task starts.  microQ is that queue: every `await` of the       *)
(* modelled code appends the continuation that resumes after it.           *)
(***************************************************************************)
EXTENDS Integers, Sequences, FiniteSets, TLC

VARIABLES
    mountToken,      \* main.ts: let mountToken
    activeSceneId,   \* main.ts: let activeSceneId
    activeCleanup,   \* main.ts: let activeCleanup (0 = undefined, else the instance whose cleanup it is)
    sceneRoot,       \* children of #scene-root: the instances whose container is attached
    calls,           \* the activateScene invocations, in call order
    insts,           \* the scene instances created by mount, in creation order
    modAC,           \* the scene modules' own `let activeCleanup` singletons
    runs,            \* the invocations of scene cleanup functions
    microQ,          \* the microtask queue
    consoleErrors,   \* number of console.error diagnostics of the Scene Host
    hotDisposals,    \* number of times the hot-reload dispose hook ran
    failures,        \* number of browser requests (adapter, device, fetch) that failed
    sm,              \* CanvasSurfaceManager: its private fields
    canvas,          \* the canvas element the surface is bound to
    gpu,             \* the textures the device has created, in creation order
    window,          \* window.devicePixelRatio
    providerSize,    \* what config.sizeProvider() returns at present
    last,            \* the last SurfaceManager call and whether it threw
    dh,              \* a DeviceHostFactory.init call and the DeviceHost it produced
    reg,             \* an InMemoryResourceRegistry, its entries and its disposeAll() calls
    bd               \* a mounted compute-boids scene and its timestamp readback buffers

sceneVars == <<mountToken, activeSceneId, activeCleanup, sceneRoot, calls, insts,
               modAC, runs, microQ, consoleErrors, hotDisposals, failures>>
surfVars == <<sm, canvas, gpu, window, providerSize, last>>
kernelVars == <<dh, reg, bd>>
vars == <<sceneVars, surfVars, kernelVars>>

---------------------------------------------------------------------------
(* Bounds of the model *)

\* activateScene calls in a behaviour of Spec
MaxCalls == 3
\* activateScene calls, and runs of the hot-reload dispose hook, in a behaviour of SpecHot
MaxHotCalls == 2
MaxHot == 1
\* activateScene calls, and failed browser requests, in a behaviour of SpecFail
MaxFailCalls == 3
MaxFail == 1
\* scene mounts, and calls of one cleanup function, in a behaviour of SpecScene
MaxMounts == 1
MaxInvokes == 2
\* textures created in a behaviour of SpecSurface
MaxTextures == 2

\* DeviceHost: uncaptured errors the device dispatches, dispose() calls
MaxUncaptured == 1
MaxHostDisposes == 2

\* ResourceRegistry: add() calls, disposeAll() calls
MaxAdds == 2
MaxDisposeAlls == 1

\* disposeAll() calls in a behaviour of SpecRegistryAgain
MaxDisposeAgain == 2

\* activateScene calls in a behaviour of SpecThrow
MaxThrowCalls == 2

\* 'beforeunload' events an instance's listener receives in a behaviour of SpecUnload
MaxUnloads == 1

\* readback buffers the compute-boids scene allocates in a behaviour of SpecBoids
MaxReadbacks == 2

\* disposeResources calls of the compute-boids scene (beforeunload, then the cleanup)
MaxBoidsDisposes == 2

---------------------------------------------------------------------------
(* sandbox/scenes/index.ts *)

scenes == <<"msdf-text", "compute-boids", "points", "transparent-canvas",
            "multiple-canvases">>

SceneIds == {scenes[n] : n \in 1..Len(scenes)}

\* the mutation: the default id names no registered scene
defaultSceneId_unregistered == "msdf"

defaultSceneId == "msdf-text"

\* scenes.find((scene) => scene.id === id): the id itself, or "" for undefined
getSceneById(id) == IF id \in SceneIds THEN id ELSE ""

\* what the selector (or any caller) may pass to activateScene
RequestIds == SceneIds \cup {"unknown"}

---------------------------------------------------------------------------
(* Structural differences between the five scene modules *)

\* module-level `let activeCleanup` awaited at the start of mount
HasModuleSingleton(k) == k \in {"msdf-text", "transparent-canvas", "multiple-canvases"}

\* the scene creates a CanvasSurfaceManager and a window 'resize' listener
UsesSurface(k) == k # "multiple-canvases"

\* runAllCleanup: cleanupCallbacks.splice(0), forward order, `void disposeResources()`
\* (the others: while (cleanupCallbacks.length) await cleanupCallbacks.pop()?.())
SpliceStyle(k) == k \in {"msdf-text", "transparent-canvas", "multiple-canvases"}

\* disposeResources calls surface.dispose()
DisposesSurface(k) == k \in {"msdf-text", "transparent-canvas", "compute-boids"}

---------------------------------------------------------------------------
(* The scene system as one record, so that a handler's statements compose *)

Cur ==
    [mountToken |-> mountToken, activeSceneId |-> activeSceneId,
     activeCleanup |-> activeCleanup, sceneRoot |-> sceneRoot, calls |-> calls,
     insts |-> insts, modAC |-> modAC, runs |-> runs, microQ |-> microQ,
     consoleErrors |-> consoleErrors, hotDisposals |-> hotDisposals,
     failures |-> failures]

Apply(st) ==
    /\ mountToken' = st.mountToken
    /\ activeSceneId' = st.activeSceneId
    /\ activeCleanup' = st.activeCleanup
    /\ sceneRoot' = st.sceneRoot
    /\ calls' = st.calls
    /\ insts' = st.insts
    /\ modAC' = st.modAC
    /\ runs' = st.runs
    /\ microQ' = st.microQ
    /\ consoleErrors' = st.consoleErrors
    /\ hotDisposals' = st.hotDisposals
    /\ failures' = st.failures

\* a continuation: what resumes (k) and for which call / instance / run
K(k, a, b, c) == [k |-> k, a |-> a, b |-> b, c |-> c]

NoK == K("none", 0, 0, 0)

\* an `await` whose promise is (or has just been) resolved queues its continuation
Enq(st, k) == IF k.k = "none" THEN st ELSE [st EXCEPT !.microQ = Append(@, k)]

NewInstance(kind, c) ==
    [kind |-> kind, call |-> c, phase |-> "pre", cbs |-> <<>>,
     resize |-> FALSE, unload |-> FALSE, raf |-> FALSE,
     device |-> "none", disposables |-> 0, errSub |-> FALSE,
     surface |-> "none", buffers |-> "none", depthTex |-> FALSE,
     disposed |-> FALSE, ts |-> FALSE,
     nInvoked |-> 0, nBuf |-> 0, nDev |-> 0, nHostDispose |-> 0,
     nRmResize |-> 0, nRmUnload |-> 0, nCancel |-> 0, nRmContainer |-> 0,
     nUnload |-> 0, lateFrame |-> FALSE]

---------------------------------------------------------------------------
(* src/kernel/deviceHost.ts: DeviceHost.dispose *)

\* device.destroy()
DeviceDestroy(st, i) ==
    [st EXCEPT !.insts[i] = [@ EXCEPT !.device = "destroyed", !.nDev = @ + 1]]

\* the disposable pushed at init: device.removeEventListener('uncapturederror', ...)
RemoveErrorListener(st, i) == [st EXCEPT !.insts[i].errSub = FALSE]

\* resumes the for-loop of dispose() after `await dispose()`; n disposables are left,
\* w is the cleanup run that awaits the enclosing disposeResources (0: nobody)
HostDisposeNext(st, i, n, w) ==
    IF n > 0
    THEN Enq(RemoveErrorListener(st, i), K("host_next", i, n - 1, w))
    ELSE Enq(DeviceDestroy(st, i), K("disp_afterHost", i, 0, w))

\* the synchronous part of host.dispose(): disposables.splice(0, length), first iteration
HostDispose(st, i, w) ==
    LET n == st.insts[i].disposables
        s1 == [st EXCEPT !.insts[i] = [@ EXCEPT !.disposables = 0,
                                                !.nHostDispose = @ + 1]]
    IN HostDisposeNext(s1, i, n, w)

---------------------------------------------------------------------------
(* The scenes' disposeResources and cleanup callbacks *)

\* msdfTextScene.ts 245-251, multipleCanvasesScene.ts 318-330, part_003 1136-1141
DisposeResourcesUnguarded(st, i, w) ==
    LET k == st.insts[i].kind
        s1 == [st EXCEPT !.insts[i] =
                 [@ EXCEPT !.nBuf = @ + 1,
                           !.buffers = "destroyed",
                           !.surface = IF DisposesSurface(k) /\ @ = "configured"
                                       THEN "disposed" ELSE @]]
    IN HostDispose(s1, i, w)

\* part_003 369-383 (compute-boids), 635-646 (points)
DisposeResourcesGuarded(st, i, w) ==
    LET k == st.insts[i].kind
        s1 == [st EXCEPT !.insts[i] =
                 [@ EXCEPT !.disposed = TRUE,
                           !.raf = FALSE,
                           !.nCancel = @ + 1,
                           !.nBuf = @ + 1,
                           !.buffers = "destroyed",
                           !.depthTex = FALSE,
                           !.surface = IF DisposesSurface(k) /\ @ = "configured"
                                       THEN "disposed" ELSE @]]
    IN IF st.insts[i].disposed
       THEN Enq(st, IF w = 0 THEN NoK ELSE K("run_next", w, 0, 0))
       ELSE HostDispose(s1, i, w)

DisposeResources(st, i, w) ==
    IF SpliceStyle(st.insts[i].kind)
    THEN DisposeResourcesUnguarded(st, i, w)
    ELSE DisposeResourcesGuarded(st, i, w)

\* one cleanup callback of run r, then the `await` of the loop that called it
Callback(st, r, cb) ==
    LET i == st.runs[r].i
        next == K("run_next", r, 0, 0)
    IN CASE cb = "rmContainer" ->
              Enq([st EXCEPT !.sceneRoot = @ \ {i},
                             !.insts[i].nRmContainer = @ + 1], next)
         [] cb = "rmResize" ->
              Enq([st EXCEPT !.insts[i] = [@ EXCEPT !.resize = FALSE,
                                                    !.nRmResize = @ + 1]], next)
         [] cb = "cancelRaf" ->
              Enq([st EXCEPT !.insts[i] = [@ EXCEPT !.raf = FALSE,
                                                    !.nCancel = @ + 1]], next)
         [] cb = "rmUnload" ->
              Enq([st EXCEPT !.insts[i] = [@ EXCEPT !.unload = FALSE,
                                                    !.nRmUnload = @ + 1]], next)
         [] cb = "voidDispose" -> Enq(DisposeResources(st, i, 0), next)
         [] cb = "dispose" -> DisposeResources(st, i, r)
         [] OTHER -> Enq(st, next)

\* the cleanup function has run to its end: its promise resolves
RunFinish(st, r) ==
    LET i == st.runs[r].i
        k == st.insts[i].kind
        s1 == IF SpliceStyle(k) THEN [st EXCEPT !.modAC[k] = 0] ELSE st
    IN Enq([s1 EXCEPT !.runs[r].done = TRUE], st.runs[r].w)

\* for (const callback of callbacks) await callback()
RunLoopSplice(st, r) ==
    LET list == st.runs[r].cbs
    IN IF list # <<>>
       THEN Callback([st EXCEPT !.runs[r].cbs = Tail(list)], r, Head(list))
       ELSE RunFinish(st, r)

\* while (cleanupCallbacks.length) await cleanupCallbacks.pop()?.()
RunLoopPop(st, r) ==
    LET i == st.runs[r].i
        list == st.insts[i].cbs
    IN IF list # <<>>
       THEN Callback([st EXCEPT !.insts[i].cbs = SubSeq(list, 1, Len(list) - 1)],
                     r, list[Len(list)])
       ELSE RunFinish(st, r)

RunLoop(st, r) ==
    IF SpliceStyle(st.insts[st.runs[r].i].kind)
    THEN RunLoopSplice(st, r)
    ELSE RunLoopPop(st, r)

\* the mutation: the callbacks are read but left in the list (slice instead of splice)
StartRun_noSplice(st, i, w) ==
    LET r == Len(st.runs) + 1
        taken == IF SpliceStyle(st.insts[i].kind) THEN st.insts[i].cbs ELSE <<>>
        s1 == [st EXCEPT
                 !.runs = Append(@, [i |-> i, cbs |-> taken, done |-> FALSE, failed |-> FALSE,
                                     w |-> w]),
                 !.insts[i].nInvoked = @ + 1]
    IN RunLoop(s1, r)

\* calling the cleanup function mount returned: the part that runs synchronously
StartRun(st, i, w) ==
    LET k == st.insts[i].kind
        r == Len(st.runs) + 1
        taken == IF SpliceStyle(k) THEN st.insts[i].cbs ELSE <<>>
        s1 == [st EXCEPT
                 !.runs = Append(@, [i |-> i, cbs |-> taken, done |-> FALSE, failed |-> FALSE,
                                     w |-> w]),
                 !.insts[i] = [@ EXCEPT !.nInvoked = @ + 1,
                                        !.cbs = IF SpliceStyle(k) THEN <<>> ELSE @]]
    IN RunLoop(s1, r)

---------------------------------------------------------------------------
(* The scenes' mount *)

\* up to the first wait for the browser: the container is appended to the root and
\* defaultDeviceHostFactory.init() is waiting for the adapter / device
MountBody(st, i) ==
    [st EXCEPT !.sceneRoot = @ \cup {i},
               !.insts[i] = [@ EXCEPT !.cbs = <<"rmContainer">>, !.phase = "init"]]

\* scene.mount(context), the part that runs synchronously in the caller
SceneMount(st, c, kind) ==
    LET i == Len(st.insts) + 1
        s1 == [st EXCEPT !.insts = Append(@, NewInstance(kind, c))]
        s2 == IF c = 0 THEN s1 ELSE [s1 EXCEPT !.calls[c].inst = i]
    IN IF HasModuleSingleton(kind) /\ st.modAC[kind] # 0
       THEN StartRun(s2, st.modAC[kind], K("mount_afterModAC", i, 0, 0))
       ELSE MountBody(s2, i)

\* if (activeCleanup) { await activeCleanup(); activeCleanup = undefined; }
MountAfterModAC(st, i) ==
    MountBody([st EXCEPT !.modAC[st.insts[i].kind] = 0], i)

\* defaultDeviceHostFactory.init() failed (no adapter, or requestDevice rejected)
InitFailed(st, i) ==
    LET x == st.insts[i]
    IN IF x.kind = "compute-boids" /\ x.phase = "init"
       THEN [st EXCEPT !.insts[i].phase = "retry", !.failures = @ + 1]
       ELSE Enq([st EXCEPT !.insts[i].phase = "failed", !.failures = @ + 1],
                K("wrap_fail", i, 0, 0))

\* the mutation: init() registers a second disposable, so that dispose() needs one
\* more turn of the microtask queue before it reaches device.destroy()
InitResolved_twoDisposables(st, i) ==
    LET x == st.insts[i]
        y == [x EXCEPT !.device = "live", !.disposables = 2, !.errSub = TRUE,
                       !.ts = (x.kind = "compute-boids" /\ x.phase = "init"),
                       !.phase = "load"]
    IN IF UsesSurface(x.kind)
       THEN [st EXCEPT !.insts[i] = [y EXCEPT !.surface = "configured",
                                              !.resize = TRUE,
                                              !.cbs = Append(@, "rmResize")]]
       ELSE [st EXCEPT !.insts[i] = y]

\* init() resolved: host.configureSurface(surface), the window 'resize' listener,
\* then the scene waits for its shaders / font
InitResolved(st, i) ==
    LET x == st.insts[i]
        y == [x EXCEPT !.device = "live", !.disposables = 1, !.errSub = TRUE,
                       !.ts = (x.kind = "compute-boids" /\ x.phase = "init"),
                       !.phase = "load"]
    IN IF UsesSurface(x.kind)
       THEN [st EXCEPT !.insts[i] = [y EXCEPT !.surface = "configured",
                                              !.resize = TRUE,
                                              !.cbs = Append(@, "rmResize")]]
       ELSE [st EXCEPT !.insts[i] = y]

\* a fetch failed (or the canvas context could not be acquired): mount rejects
LoadFailed(st, i) ==
    Enq([st EXCEPT !.insts[i].phase = "failed", !.failures = @ + 1],
        K("wrap_fail", i, 0, 0))

\* the mutation: mount registers no removal of its 'beforeunload' listener
LoadResolved_unloadKept(st, i) ==
    LET x == st.insts[i]
        k == x.kind
        more == IF k = "multiple-canvases"
                THEN <<"roDisc", "ioDisc", "cancelRaf", "voidDispose">>
                ELSE IF SpliceStyle(k)
                THEN <<"cancelRaf", "voidDispose">>
                ELSE <<"dispose">>
        s1 == [st EXCEPT !.insts[i] = [@ EXCEPT !.buffers = "live", !.raf = TRUE,
                                                !.unload = TRUE, !.cbs = @ \o more,
                                                !.phase = "mounted"]]
        s2 == IF HasModuleSingleton(k) THEN [s1 EXCEPT !.modAC[k] = i] ELSE s1
    IN Enq(s2, K("wrap_ok", i, 0, 0))

\* the rest of mount: GPU buffers, the first requestAnimationFrame, the
\* 'beforeunload' listener, and the cleanup function is returned
LoadResolved(st, i) ==
    LET x == st.insts[i]
        k == x.kind
        more == IF k = "multiple-canvases"
                THEN <<"roDisc", "ioDisc", "cancelRaf", "rmUnload", "voidDispose">>
                ELSE IF SpliceStyle(k)
                THEN <<"cancelRaf", "rmUnload", "voidDispose">>
                ELSE <<"rmUnload", "dispose">>
        s1 == [st EXCEPT !.insts[i] = [@ EXCEPT !.buffers = "live", !.raf = TRUE,
                                                !.unload = TRUE, !.cbs = @ \o more,
                                                !.phase = "mounted"]]
        s2 == IF HasModuleSingleton(k) THEN [s1 EXCEPT !.modAC[k] = i] ELSE s1
    IN Enq(s2, K("wrap_ok", i, 0, 0))

\* the frame callback of the scene's render loop
SceneFrame(st, i) ==
    LET x == st.insts[i]
        k == x.kind
        noSurface == UsesSurface(k) /\ x.surface # "configured"
    IN IF SpliceStyle(k)
       THEN \* rafId = requestAnimationFrame(frame) comes first; acquireFrame() may throw;
            \* lateFrame: this happened after disposeResources had destroyed the buffers
            [st EXCEPT !.insts[i] = [@ EXCEPT !.raf = TRUE,
                                              !.lateFrame = @ \/ x.buffers = "destroyed"]]
       ELSE IF x.disposed \/ noSurface
       THEN \* returns (or acquireFrame() throws) before the next frame is requested
            [st EXCEPT !.insts[i].raf = FALSE]
       ELSE [st EXCEPT !.insts[i] = [@ EXCEPT !.raf = TRUE,
                                              !.depthTex = @ \/ (k = "points")]]

---------------------------------------------------------------------------
(* sandbox/main.ts: the Scene Host *)

\* sceneRoot.innerHTML = ''; and cleanupActiveScene's promise resolves
CasTail(st, c) ==
    Enq([st EXCEPT !.sceneRoot = {}], K("act_afterCleanup", c, 0, 0))

\* the mutation: the outgoing cleanup is started but not awaited
CleanupActiveScene_notAwaited(st, c) ==
    IF st.activeCleanup # 0
    THEN CasTail(StartRun([st EXCEPT !.activeCleanup = 0], st.activeCleanup, NoK), c)
    ELSE CasTail(st, c)

\* the mutation: the reference is not cleared before the cleanup is awaited
CleanupActiveScene_notCleared(st, c) ==
    IF st.activeCleanup # 0
    THEN StartRun(st, st.activeCleanup, K("cas_afterCleanup", c, 0, 0))
    ELSE CasTail(st, c)

CleanupActiveScene(st, c) ==
    IF st.activeCleanup # 0
    THEN StartRun([st EXCEPT !.activeCleanup = 0], st.activeCleanup,
                  K("cas_afterCleanup", c, 0, 0))
    ELSE CasTail(st, c)

\* activateScene(id) up to `await cleanupActiveScene()`, or to the throw of
\* 'Unable to resolve scene' (pc "unresolved": the call rejects and has changed nothing)
ActivateSceneStart(st, id) ==
    LET found == getSceneById(id)
        scene == IF found # "" THEN found ELSE getSceneById(defaultSceneId)
        c == Len(st.calls) + 1
        token == st.mountToken + 1
        s1 == [st EXCEPT !.mountToken = token,
                         !.calls = Append(@, [id |-> id, scene |-> scene, token |-> token,
                                              pc |-> "cleaning", inst |-> 0,
                                              out |-> st.activeCleanup])]
    IN IF scene = ""
       THEN [st EXCEPT !.calls = Append(@, [id |-> id, scene |-> "", token |-> 0,
                                            pc |-> "unresolved", inst |-> 0, out |-> 0])]
       ELSE CleanupActiveScene(s1, c)

\* the mutation: the call mounts its scene without recording its id
ActAfterCleanup_idNotSet(st, c) ==
    SceneMount([st EXCEPT !.calls[c].pc = "mounting"], c, st.calls[c].scene)

\* lines 58-64: activeSceneId = scene.id; ... await scene.mount(context)
ActAfterCleanup(st, c) ==
    LET scene == st.calls[c].scene
    IN SceneMount([st EXCEPT !.activeSceneId = scene, !.calls[c].pc = "mounting"],
                  c, scene)

\* the mutation: the mount result is installed whatever the token says
ActAfterMount_noTokenCheck(st, c) ==
    [st EXCEPT !.activeCleanup = st.calls[c].inst, !.calls[c].pc = "done"]

\* the mutation: a superseded mount result is dropped without its cleanup
ActAfterMount_staleDropped(st, c) ==
    LET i == st.calls[c].inst
    IN IF st.calls[c].token # st.mountToken
       THEN [st EXCEPT !.calls[c].pc = "done"]
       ELSE [st EXCEPT !.activeCleanup = i, !.calls[c].pc = "done"]

\* lines 65-72: the mount promise resolved with the cleanup function
ActAfterMount(st, c) ==
    LET i == st.calls[c].inst
    IN IF st.calls[c].token # st.mountToken
       THEN StartRun([st EXCEPT !.calls[c].pc = "stale"], i,
                     K("act_afterStale", c, 0, 0))
       ELSE [st EXCEPT !.activeCleanup = i, !.calls[c].pc = "done"]

\* line 70: return
ActAfterStale(st, c) == [st EXCEPT !.calls[c].pc = "done"]

\* lines 73-76: catch (error)
ActCatch(st, c) ==
    [st EXCEPT !.consoleErrors = @ + 1, !.sceneRoot = {}, !.calls[c].pc = "failed"]

\* import.meta.hot.dispose(() => { ... })
HotDisposeHook(st) ==
    LET s1 == [st EXCEPT !.mountToken = @ + 1, !.hotDisposals = @ + 1]
    IN IF st.activeCleanup # 0
       THEN StartRun([s1 EXCEPT !.activeCleanup = 0], st.activeCleanup, NoK)
       ELSE s1

---------------------------------------------------------------------------
(* The microtask queue *)

\* the scene's `async mount` wrapper resumes after `await mountXScene(root)`
WrapResume(st, i, ok) ==
    LET c == st.insts[i].call
    IN IF c = 0 THEN st
       ELSE Enq(st, K(IF ok THEN "act_afterMount" ELSE "act_catch", c, 0, 0))

Resume(st, k) ==
    CASE k.k = "act_afterCleanup" -> ActAfterCleanup(st, k.a)
      [] k.k = "cas_afterCleanup" -> CasTail(st, k.a)
      [] k.k = "act_afterMount" -> ActAfterMount(st, k.a)
      [] k.k = "act_afterStale" -> ActAfterStale(st, k.a)
      [] k.k = "act_catch" -> ActCatch(st, k.a)
      [] k.k = "wrap_ok" -> WrapResume(st, k.a, TRUE)
      [] k.k = "wrap_fail" -> WrapResume(st, k.a, FALSE)
      [] k.k = "mount_afterModAC" -> MountAfterModAC(st, k.a)
      [] k.k = "run_next" -> RunLoop(st, k.a)
      [] k.k = "host_next" -> HostDisposeNext(st, k.a, k.b, k.c)
      [] k.k = "disp_afterHost" ->
            Enq(st, IF k.c = 0 THEN NoK ELSE K("run_next", k.c, 0, 0))

\* the mutation: a cleanup that rejected resumes its awaiter as if it had resolved
RunRejected_swallowed(st, r) ==
    Enq([st EXCEPT !.runs[r].failed = TRUE], st.runs[r].w)

\* a callback of cleanup run r throws: the loop is left, the promise of the cleanup
\* function rejects, and whoever awaits it handles the rejection. cleanupActiveScene
\* has no handler and neither has the `await cleanupActiveScene()` of activateScene,
\* which rejects (pc "rejected"); the stale cleanup is awaited inside the try block;
\* a scene's mount that awaits its module's previous cleanup rejects
RunRejected(st, r) ==
    LET w == st.runs[r].w
        s1 == [st EXCEPT !.runs[r].failed = TRUE]
    IN CASE w.k = "cas_afterCleanup" -> [s1 EXCEPT !.calls[w.a].pc = "rejected"]
         [] w.k = "act_afterStale" -> ActCatch(s1, w.a)
         [] w.k = "mount_afterModAC" ->
              Enq([s1 EXCEPT !.insts[w.a].phase = "failed"], K("wrap_fail", w.a, 0, 0))
         [] OTHER -> s1

Idle == microQ = <<>>

---------------------------------------------------------------------------
(* Actions: one per task of the event loop, and one for a microtask *)

Microtask ==
    /\ microQ # <<>>
    /\ Apply(Resume([Cur EXCEPT !.microQ = Tail(@)], Head(microQ)))
    /\ UNCHANGED <<surfVars, kernelVars>>

\* the cleanup callback that is about to run throws instead
CleanupThrows ==
    /\ microQ # <<>>
    /\ Head(microQ).k = "run_next"
    /\ runs[Head(microQ).a].w.k # "none"
    /\ failures < MaxFail
    /\ LET r == Head(microQ).a
           list == IF SpliceStyle(insts[runs[r].i].kind) THEN runs[r].cbs
                   ELSE insts[runs[r].i].cbs
       IN /\ list # <<>>
          /\ Apply(RunRejected([Cur EXCEPT !.microQ = Tail(@), !.failures = @ + 1], r))
    /\ UNCHANGED <<surfVars, kernelVars>>

\* void activateScene(activeSceneId) at module load, then the selector's 'change' events
ActivateUpTo(n) ==
    /\ Idle
    /\ Len(calls) < n
    /\ \E id \in (IF calls = <<>> THEN {activeSceneId} ELSE RequestIds) :
         Apply(ActivateSceneStart(Cur, id))
    /\ UNCHANGED <<surfVars, kernelVars>>

ActivateScene == ActivateUpTo(MaxCalls)

ActivateSceneHot == ActivateUpTo(MaxHotCalls)

ActivateSceneFail == ActivateUpTo(MaxFailCalls)

ActivateSceneThrow == ActivateUpTo(MaxThrowCalls)

\* the browser resolves requestAdapter / requestDevice
InitOk ==
    /\ Idle
    /\ \E i \in 1..Len(insts) :
         /\ insts[i].phase \in {"init", "retry"}
         /\ Apply(InitResolved(Cur, i))
    /\ UNCHANGED <<surfVars, kernelVars>>

\* no adapter, or requestDevice rejects
InitFail ==
    /\ Idle
    /\ failures < MaxFail
    /\ \E i \in 1..Len(insts) :
         /\ insts[i].phase \in {"init", "retry"}
         /\ Apply(InitFailed(Cur, i))
    /\ UNCHANGED <<surfVars, kernelVars>>

\* the browser resolves the last fetch the mount waits for
LoadOk ==
    /\ Idle
    /\ \E i \in 1..Len(insts) :
         /\ insts[i].phase = "load"
         /\ Apply(LoadResolved(Cur, i))
    /\ UNCHANGED <<surfVars, kernelVars>>

LoadFail ==
    /\ Idle
    /\ failures < MaxFail
    /\ \E i \in 1..Len(insts) :
         /\ insts[i].phase = "load"
         /\ Apply(LoadFailed(Cur, i))
    /\ UNCHANGED <<surfVars, kernelVars>>

\* the browser runs a requested animation frame
Frame ==
    /\ Idle
    /\ \E i \in 1..Len(insts) :
         /\ insts[i].raf
         /\ Apply(SceneFrame(Cur, i))
    /\ UNCHANGED <<surfVars, kernelVars>>

\* Vite replaces the main module
HotDispose ==
    /\ Idle
    /\ hotDisposals < MaxHot
    /\ Apply(HotDisposeHook(Cur))
    /\ UNCHANGED <<surfVars, kernelVars>>

\* a caller other than the Scene Host mounts a scene ...
HarnessMount ==
    /\ Idle
    /\ Len(insts) < MaxMounts
    /\ \E kind \in SceneIds : Apply(SceneMount(Cur, 0, kind))
    /\ UNCHANGED <<surfVars, kernelVars>>

\* the window dispatches 'beforeunload': the disposeResources of every instance whose
\* listener is attached runs to its first await, in the order of registration
RECURSIVE BeforeUnloadFrom(_, _)
BeforeUnloadFrom(st, i) ==
    IF i > Len(st.insts) THEN st
    ELSE IF st.insts[i].unload
    THEN BeforeUnloadFrom(DisposeResources([st EXCEPT !.insts[i].nUnload = @ + 1], i, 0),
                          i + 1)
    ELSE BeforeUnloadFrom(st, i + 1)

BeforeUnload ==
    /\ Idle
    /\ \E i \in 1..Len(insts) : insts[i].unload
    /\ \A i \in 1..Len(insts) : insts[i].nUnload < MaxUnloads
    /\ Apply(BeforeUnloadFrom(Cur, 1))
    /\ UNCHANGED <<surfVars, kernelVars>>

\* ... and calls the cleanup function it got, again and again, also while an earlier
\* call of it is still running
InvokeCleanup ==
    /\ \E i \in 1..Len(insts) :
         /\ insts[i].phase = "mounted"
         /\ insts[i].nInvoked < MaxInvokes
         /\ \A q \in 1..Len(microQ) : ~(microQ[q].k = "wrap_ok" /\ microQ[q].a = i)
         /\ Apply(StartRun(Cur, i, NoK))
    /\ UNCHANGED <<surfVars, kernelVars>>

---------------------------------------------------------------------------
(* src/core/surfaceManager.ts (transfer-log.md 40-150): CanvasSurfaceManager *)

\* numbers that need not be integers (a device-pixel-ratio, a CSS size): <<n, d>> is n/d
Num(q) == q[1]
Den(q) == q[2]

\* window.devicePixelRatio values the browser may report (0 stands for a falsy value,
\* which resize() replaces by 1)
Dprs == {<<0, 1>>, <<3, 2>>, <<2, 1>>}

\* sizes a sizeProvider may return: <<width, height>>
ProviderSizes == {<<<<-3, 2>>, <<5, 2>>>>, <<<<1, 2>>, <<3, 1>>>>}

\* canvas.clientWidth / clientHeight: non-negative integers
ClientSizes == {<<0, 0>>, <<300, 150>>}

DepthFormats == {"", "depth24plus"}

\* config.format: "" stands for a config without format
Formats == {"", "rgba8unorm"}
AlphaModes == {"", "premultiplied"}

\* Math.floor(logical * dpr)
FloorMul(logical, dpr) == (Num(logical) * Num(dpr)) \div (Den(logical) * Den(dpr))

\* Math.max(1, x)
Max1(x) == IF x > 1 THEN x ELSE 1

undefinedConfig ==
    [set |-> FALSE, depthFormat |-> "", sizeProvider |-> FALSE, alphaMode |-> "",
     format |-> ""]

undefinedSize == [set |-> FALSE, width |-> 0, height |-> 0, devicePixelRatio |-> <<0, 1>>]

\* navigator.gpu.getPreferredCanvasFormat()
PreferredCanvasFormat == "bgra8unorm"

\* new CanvasSurfaceManager(): the field initialisers
NewSurfaceManager ==
    [config |-> undefinedConfig, context |-> FALSE, depthTexture |-> 0,
     currentSize |-> undefinedSize, internalFormat |-> PreferredCanvasFormat,
     internalDepthFormat |-> "", contextAlphaMode |-> "", contextConfigures |-> 0]

\* the surface side as one record
SurfCur == [sm |-> sm, canvas |-> canvas, gpu |-> gpu]

\* texture.destroy(); destroying twice is allowed and changes nothing
TextureDestroy(g, id) ==
    IF id = 0 THEN g ELSE [g EXCEPT ![id] = [live |-> FALSE, destroys |-> @.destroys + 1]]

\* device.createTexture({ size: [width, height, 1], ... })
CreateTexture(g) == Append(g, [live |-> TRUE, destroys |-> 0])

\* the mutation: the computed size is not clamped to 1
SmResize_noClamp(su, dprNow, provided) ==
    LET m == su.sm
        dpr == IF Num(dprNow) = 0 THEN <<1, 1>> ELSE dprNow
        logicalWidth == IF m.config.sizeProvider THEN provided[1]
                        ELSE <<su.canvas.clientWidth, 1>>
        logicalHeight == IF m.config.sizeProvider THEN provided[2]
                         ELSE <<su.canvas.clientHeight, 1>>
        width == FloorMul(logicalWidth, dpr)
        height == FloorMul(logicalHeight, dpr)
        g2 == CreateTexture(TextureDestroy(su.gpu, m.depthTexture))
        hasDepth == m.internalDepthFormat # ""
    IN IF ~m.config.set \/ ~m.context
       THEN su
       ELSE [sm |-> [m EXCEPT !.contextAlphaMode = m.config.alphaMode,
                              !.contextConfigures = 1,
                              !.depthTexture = IF hasDepth THEN Len(g2) ELSE @,
                              !.currentSize = [set |-> TRUE, width |-> width,
                                               height |-> height,
                                               devicePixelRatio |-> dpr]],
             canvas |-> [su.canvas EXCEPT !.width = width, !.height = height],
             gpu |-> IF hasDepth THEN g2 ELSE su.gpu]

\* the mutation: resize() allocates a depth texture without destroying the one it holds
SmResize_keepsOld(su, dprNow, provided) ==
    LET m == su.sm
        dpr == IF Num(dprNow) = 0 THEN <<1, 1>> ELSE dprNow
        logicalWidth == IF m.config.sizeProvider THEN provided[1]
                        ELSE <<su.canvas.clientWidth, 1>>
        logicalHeight == IF m.config.sizeProvider THEN provided[2]
                         ELSE <<su.canvas.clientHeight, 1>>
        width == Max1(FloorMul(logicalWidth, dpr))
        height == Max1(FloorMul(logicalHeight, dpr))
        g1 == su.gpu
        g2 == CreateTexture(g1)
        hasDepth == m.internalDepthFormat # ""
    IN IF ~m.config.set \/ ~m.context
       THEN su
       ELSE [sm |-> [m EXCEPT !.contextAlphaMode = m.config.alphaMode,
                              !.contextConfigures = 1,
                              !.depthTexture = IF hasDepth THEN Len(g2) ELSE @,
                              !.currentSize = [set |-> TRUE, width |-> width,
                                               height |-> height,
                                               devicePixelRatio |-> dpr]],
             canvas |-> [su.canvas EXCEPT !.width = width, !.height = height],
             gpu |-> IF hasDepth THEN g2 ELSE su.gpu]

\* resize(): lines 111-142
SmResize(su, dprNow, provided) ==
    LET m == su.sm
        dpr == IF Num(dprNow) = 0 THEN <<1, 1>> ELSE dprNow
        logicalWidth == IF m.config.sizeProvider THEN provided[1]
                        ELSE <<su.canvas.clientWidth, 1>>
        logicalHeight == IF m.config.sizeProvider THEN provided[2]
                         ELSE <<su.canvas.clientHeight, 1>>
        width == Max1(FloorMul(logicalWidth, dpr))
        height == Max1(FloorMul(logicalHeight, dpr))
        g1 == TextureDestroy(su.gpu, m.depthTexture)
        g2 == CreateTexture(g1)
        hasDepth == m.internalDepthFormat # ""
    IN IF ~m.config.set \/ ~m.context
       THEN su
       ELSE [sm |-> [m EXCEPT !.contextAlphaMode = m.config.alphaMode,
                              !.contextConfigures = 1,
                              !.depthTexture = IF hasDepth THEN Len(g2) ELSE @,
                              !.currentSize = [set |-> TRUE, width |-> width,
                                               height |-> height,
                                               devicePixelRatio |-> dpr]],
             canvas |-> [su.canvas EXCEPT !.width = width, !.height = height],
             gpu |-> IF hasDepth THEN g2 ELSE su.gpu]

\* configure(config): lines 87-93; gotContext: canvas.getContext('webgpu') is not null
SmConfigure(su, config, gotContext, dprNow, provided) ==
    LET m == [su.sm EXCEPT !.config = config,
                           !.context = gotContext,
                           !.internalFormat = IF config.format # "" THEN config.format
                                              ELSE PreferredCanvasFormat,
                           !.internalDepthFormat = config.depthFormat]
    IN SmResize([su EXCEPT !.sm = m], dprNow, provided)

\* the mutation: acquireFrame() without its guard
SmAcquireThrows_never(m) == FALSE

\* acquireFrame(): lines 95-109; the guard that throws 'Surface not configured.'
SmAcquireThrows(m) == ~m.config.set \/ ~m.context \/ ~m.currentSize.set

\* the mutation: the frame reports the platform's preferred format
SmAcquireFrame_preferred(m) ==
    [colorView |-> TRUE, depthView |-> m.depthTexture,
     presentationFormat |-> PreferredCanvasFormat, size |-> m.currentSize]

\* acquireFrame(): lines 100-108; the FrameContext it returns (depthView: the id of
\* the texture the view is of, 0 for undefined)
SmAcquireFrame(m) ==
    [colorView |-> TRUE, depthView |-> m.depthTexture,
     presentationFormat |-> m.internalFormat, size |-> m.currentSize]

\* no FrameContext was returned
noFrame ==
    [colorView |-> FALSE, depthView |-> 0, presentationFormat |-> "",
     size |-> undefinedSize]

\* the mutation: dispose() destroys the depth texture but keeps the reference to it
SmDispose_keepsTexture(su) ==
    [su EXCEPT !.gpu = TextureDestroy(su.gpu, su.sm.depthTexture),
               !.sm = [@ EXCEPT !.context = FALSE,
                                !.config = undefinedConfig,
                                !.currentSize = undefinedSize]]

\* dispose(): lines 144-150
SmDispose(su) ==
    [su EXCEPT !.gpu = TextureDestroy(su.gpu, su.sm.depthTexture),
               !.sm = [@ EXCEPT !.depthTexture = 0, !.context = FALSE,
                                !.config = undefinedConfig,
                                !.currentSize = undefinedSize]]

SurfApply(su) ==
    /\ sm' = su.sm
    /\ canvas' = su.canvas
    /\ gpu' = su.gpu

\* what `last` records of a call
Called(op, threw) == [op |-> op, threw |-> threw, frame |-> noFrame]

Configure ==
    /\ Len(gpu) < MaxTextures
    /\ \E depthFormat \in DepthFormats, alphaMode \in AlphaModes,
          sizeProvider \in BOOLEAN, gotContext \in BOOLEAN, format \in Formats :
         LET config == [set |-> TRUE, depthFormat |-> depthFormat,
                        sizeProvider |-> sizeProvider, alphaMode |-> alphaMode,
                        format |-> format]
         IN /\ SurfApply(SmConfigure(SurfCur, config, gotContext,
                                     window.devicePixelRatio, providerSize))
            /\ last' = Called("configure", FALSE)
    /\ UNCHANGED <<sceneVars, kernelVars, window, providerSize>>

Resize ==
    /\ Len(gpu) < MaxTextures
    /\ SurfApply(SmResize(SurfCur, window.devicePixelRatio, providerSize))
    /\ last' = Called("resize", FALSE)
    /\ UNCHANGED <<sceneVars, kernelVars, window, providerSize>>

AcquireFrame ==
    /\ last' = IF SmAcquireThrows(sm) THEN Called("acquireFrame", TRUE)
               ELSE [Called("acquireFrame", FALSE) EXCEPT !.frame = SmAcquireFrame(sm)]
    /\ UNCHANGED <<sceneVars, kernelVars, sm, canvas, gpu, window, providerSize>>

Dispose ==
    /\ SurfApply(SmDispose(SurfCur))
    /\ last' = Called("dispose", FALSE)
    /\ UNCHANGED <<sceneVars, kernelVars, window, providerSize>>

\* the page is laid out again
Layout ==
    /\ \E ps \in ProviderSizes, cs \in ClientSizes :
         /\ providerSize' = ps
         /\ canvas' = [canvas EXCEPT !.clientWidth = cs[1], !.clientHeight = cs[2]]
    /\ last' = Called("layout", FALSE)
    /\ UNCHANGED <<sceneVars, kernelVars, sm, gpu, window>>

\* the window moves to another screen, or the page is zoomed
ChangeDpr ==
    /\ \E d \in Dprs : window' = [devicePixelRatio |-> d]
    /\ last' = Called("layout", FALSE)
    /\ UNCHANGED <<sceneVars, kernelVars, sm, gpu, canvas, providerSize>>

---------------------------------------------------------------------------
(* src/kernel/deviceHost.ts: defaultDeviceHostFactory.init and the DeviceHost it returns *)

\* the errors this file creates
ErrNoWebGPU == "WebGPU is not available in this environment."
ErrNoAdapter == "Unable to acquire a GPU adapter."
ErrInitFailed == "Failed to initialize GPU device."
ErrNoCanvas == "DeviceHost options.canvas is required to configure a surface."

\* what adapter.requestDevice() may reject with: an Error (the browser's
\* OperationError / TypeError) or a value that is not an Error
RequestDeviceRejections == {"OperationError", "not an Error"}

\* error instanceof Error
IsError(e) == e # "not an Error"

\* the options mountTransparentCanvasScene passes to init (part_003 961-968): its
\* surfaceConfig has an alphaMode, a member the DeviceHostOptions type does not declare
transparentCanvasOptions ==
    [onError |-> TRUE, canvas |-> TRUE, format |-> "", depthFormat |-> "depth24plus",
     sizeProvider |-> FALSE, alphaMode |-> "premultiplied"]

\* DeviceHostOptions (lines 5-15): which optional members are present
DeviceHostOptions ==
    [onError : BOOLEAN, canvas : BOOLEAN, format : Formats,
     depthFormat : DepthFormats, sizeProvider : BOOLEAN, alphaMode : {""}]
    \cup {transparentCanvasOptions}

\* init(options = {}): the default argument
emptyOptions ==
    [onError |-> FALSE, canvas |-> FALSE, format |-> "", depthFormat |-> "",
     sizeProvider |-> FALSE, alphaMode |-> ""]

\* no init call yet.  pc: where the init call is ("requestAdapter" / "requestDevice":
\* suspended at that await; "resolved": returned the host; "rejected": threw
\* `rejection`); listener: the 'uncapturederror' listener is attached; lostThen: a
\* reaction is attached to device.lost; disposables: length of the array; awaiting:
\* dispose() calls suspended at `await dispose()`
NoDeviceHost ==
    [pc |-> "none", options |-> emptyOptions, rejection |-> "",
     onErrorCalls |-> <<>>, uncaptured |-> 0,
     listener |-> FALSE, lostThen |-> FALSE, disposables |-> 0,
     destroys |-> 0, lost |-> FALSE, disposeCalls |-> 0, awaiting |-> 0]

\* options.onError?.(error); the record keeps what the init promise and dispose()
\* had done by the time of the call
CallOnError(d, error) ==
    IF d.options.onError
    THEN [d EXCEPT !.onErrorCalls =
              Append(@, [error |-> error,
                         initSettled |-> d.pc \in {"resolved", "rejected"},
                         afterDispose |-> d.disposeCalls > 0])]
    ELSE d

\* init: lines 32-39, up to `await navigator.gpu.requestAdapter(...)`
DhInitStart(d, options, gpuInNavigator) ==
    IF ~gpuInNavigator
    THEN [d EXCEPT !.options = options, !.pc = "rejected", !.rejection = ErrNoWebGPU]
    ELSE [d EXCEPT !.options = options, !.pc = "requestAdapter"]

\* init: lines 37-45, requestAdapter resolved with an adapter or with null
DhAfterAdapter(d, adapter) ==
    IF ~adapter
    THEN [d EXCEPT !.pc = "rejected", !.rejection = ErrNoAdapter]
    ELSE [d EXCEPT !.pc = "requestDevice"]

\* the mutation: the catch block rethrows without telling onError
DhCatch_silent(d, error) == [d EXCEPT !.pc = "rejected", !.rejection = error]

\* init: the catch block, lines 103-108
DhCatch(d, error) ==
    [CallOnError(d, IF IsError(error) THEN error ELSE ErrInitFailed)
        EXCEPT !.pc = "rejected", !.rejection = error]

\* init: lines 45-102, requestDevice settled ("device": it resolved)
DhAfterDevice(d, outcome) ==
    IF outcome # "device"
    THEN DhCatch(d, outcome)
    ELSE [d EXCEPT !.pc = "resolved",
                   !.listener = d.options.onError,
                   !.disposables = IF d.options.onError THEN 1 ELSE 0,
                   !.lostThen = d.options.onError]

\* handleUncapturedError: lines 55-57, run for each listener that is attached
DhUncapturedError(d) ==
    LET e == [d EXCEPT !.uncaptured = @ + 1]
    IN IF d.listener THEN CallOnError(e, "GPUError") ELSE e

\* device.lost resolves: the reaction of lines 62-64
DhDeviceLost(d) ==
    LET l == [d EXCEPT !.lost = TRUE]
    IN IF d.lostThen THEN CallOnError(l, "Device lost") ELSE l

\* dispose(): lines 96-98, device.destroy()
DhDestroy(d) == [d EXCEPT !.destroys = @ + 1]

\* dispose(): lines 92-95, up to the first `await dispose()`.  splice empties the
\* array; the first disposable (the only one init ever pushes) runs in the call itself
DhDisposeCall(d) ==
    LET c == [d EXCEPT !.disposables = 0, !.disposeCalls = @ + 1]
    IN IF d.disposables = 0
       THEN DhDestroy(c)
       ELSE [c EXCEPT !.listener = FALSE, !.awaiting = @ + 1]

\* dispose(): after `await dispose()` of the last disposable, lines 95-98
DhDisposeResume(d) == DhDestroy([d EXCEPT !.awaiting = @ - 1])

\* the mutation: configureSurface() without the canvas check
DhConfigureSurface_noCheck(d, su, gotContext, dprNow, provided) ==
    [su |-> SmConfigure(su, [set |-> TRUE,
                             depthFormat |-> d.options.depthFormat,
                             sizeProvider |-> d.options.sizeProvider,
                             alphaMode |-> "",
                             format |-> d.options.format],
                        gotContext, dprNow, provided),
     threw |-> FALSE]

\* the mutation: the size provider of the options is not handed on
DhConfigureSurface_noProvider(d, su, gotContext, dprNow, provided) ==
    IF ~d.options.canvas
    THEN [su |-> su, threw |-> TRUE]
    ELSE [su |-> SmConfigure(su, [set |-> TRUE,
                                  depthFormat |-> d.options.depthFormat,
                                  sizeProvider |-> TRUE,
                                  alphaMode |-> "",
                                  format |-> d.options.format],
                             gotContext, dprNow, provided),
          threw |-> FALSE]

\* configureSurface(surface): lines 75-88; the result is the surface side and whether
\* the call threw ErrNoCanvas
DhConfigureSurface(d, su, gotContext, dprNow, provided) ==
    IF ~d.options.canvas
    THEN [su |-> su, threw |-> TRUE]
    ELSE [su |-> SmConfigure(su, [set |-> TRUE,
                                  depthFormat |-> d.options.depthFormat,
                                  sizeProvider |-> d.options.sizeProvider,
                                  alphaMode |-> "",
                                  format |-> d.options.format],
                             gotContext, dprNow, provided),
          threw |-> FALSE]

\* no microtask of the DeviceHost is pending
DhIdle == dh.awaiting = 0

InitCall ==
    /\ dh.pc = "none"
    /\ \E options \in DeviceHostOptions, gpuInNavigator \in BOOLEAN :
         dh' = DhInitStart(dh, options, gpuInNavigator)
    /\ UNCHANGED <<sceneVars, surfVars, reg, bd>>

RequestAdapterSettles ==
    /\ dh.pc = "requestAdapter"
    /\ \E adapter \in BOOLEAN : dh' = DhAfterAdapter(dh, adapter)
    /\ UNCHANGED <<sceneVars, surfVars, reg, bd>>

RequestDeviceSettles ==
    /\ dh.pc = "requestDevice"
    /\ \E outcome \in {"device"} \cup RequestDeviceRejections :
         dh' = DhAfterDevice(dh, outcome)
    /\ UNCHANGED <<sceneVars, surfVars, reg, bd>>

UncapturedError ==
    /\ dh.pc = "resolved" /\ DhIdle
    /\ dh.uncaptured < MaxUncaptured
    /\ dh' = DhUncapturedError(dh)
    /\ UNCHANGED <<sceneVars, surfVars, reg, bd>>

\* the device is lost, by itself or because it was destroyed
DeviceLost ==
    /\ dh.pc = "resolved" /\ DhIdle
    /\ ~dh.lost
    /\ dh' = DhDeviceLost(dh)
    /\ UNCHANGED <<sceneVars, surfVars, reg, bd>>

HostDisposeCall ==
    /\ dh.pc = "resolved"
    /\ dh.disposeCalls < MaxHostDisposes
    /\ dh' = DhDisposeCall(dh)
    /\ UNCHANGED <<sceneVars, surfVars, reg, bd>>

HostDisposeMicrotask ==
    /\ dh.awaiting > 0
    /\ dh' = DhDisposeResume(dh)
    /\ UNCHANGED <<sceneVars, surfVars, reg, bd>>

ConfigureSurface ==
    /\ dh.pc = "resolved"
    /\ Len(gpu) < MaxTextures
    /\ \E gotContext \in BOOLEAN :
         LET r == DhConfigureSurface(dh, SurfCur, gotContext,
                                     window.devicePixelRatio, providerSize)
         IN /\ SurfApply(r.su)
            /\ last' = Called("configureSurface", r.threw)
    /\ UNCHANGED <<sceneVars, kernelVars, window, providerSize>>

---------------------------------------------------------------------------
(* src/core/resourceRegistry.ts: InMemoryResourceRegistry *)

\* ResourceId values
ResourceIds == {"a", "b"}

\* what the `dispose` member of a TrackedResource is: absent ("none"), a function
\* that returns undefined ("sync"), one that returns a promise that is fulfilled
\* later ("async"), one that throws ("throws"), one that returns a promise that is
\* rejected later ("rejects")
DisposerKinds == {"none", "sync", "async", "throws", "rejects"}

\* new InMemoryResourceRegistry().  map: the Map's entry list, in insertion order
\* (clear() empties the records of the list and keeps the list, so that an iterator
\* suspended in it goes on behind them; key "" is an emptied record);
\* entries: every TrackedResource ever passed to add(), an entry is named by its
\* index here; calls: the disposeAll() calls; queue: the microtasks that resume
\* disposeAll() calls; invoked: the disposer invocations, in order; listed: the array
\* the latest list() call returned, as its caller holds it
NewRegistry ==
    [map |-> <<>>, entries |-> <<>>, calls |-> <<>>, queue |-> <<>>, invoked |-> <<>>,
     listed |-> <<>>]

\* Map.prototype.set(key, value): a present key keeps its place in the order
MapSet(map, key, e) ==
    IF \E i \in 1..Len(map) : map[i].key = key
    THEN [i \in 1..Len(map) |-> IF map[i].key = key THEN [key |-> key, entry |-> e]
                                ELSE map[i]]
    ELSE Append(map, [key |-> key, entry |-> e])

\* Map.prototype.clear()
MapClear(map) == [i \in 1..Len(map) |-> [key |-> "", entry |-> 0]]

\* Map.prototype.values(): the entries in order
MapValues(map) ==
    LET live == SelectSeq(map, LAMBDA r : r.key # "")
    IN [i \in 1..Len(live) |-> live[i].entry]

\* %MapIteratorPrototype%.next() from index pos: the index of the record it yields,
\* 0 when the iterator is done
MapIterNext(map, pos) ==
    IF \E i \in pos..Len(map) : map[i].key # ""
    THEN CHOOSE i \in pos..Len(map) :
            /\ map[i].key # ""
            /\ \A j \in pos..(i - 1) : map[j].key = ""
    ELSE 0

\* a disposer's promise is pending
DisposerPending(r) == \E c \in 1..Len(r.calls) : r.calls[c].pc = "awaiting"

\* the mutation: add() keeps the entry an id already has
RegAdd_keepsOld(r, id, kind) ==
    LET e == Len(r.entries) + 1
    IN [r EXCEPT !.entries = Append(@, [id |-> id, kind |-> kind]),
                 !.map = IF \E i \in 1..Len(r.map) : r.map[i].key = id
                         THEN @ ELSE MapSet(@, id, e),
                 !.calls = [c \in 1..Len(r.calls) |-> [r.calls[c] EXCEPT !.quiet = FALSE]]]

\* add(entry): lines 20-22
RegAdd(r, id, kind) ==
    LET e == Len(r.entries) + 1
    IN [r EXCEPT !.entries = Append(@, [id |-> id, kind |-> kind]),
                 !.map = MapSet(@, id, e),
                 !.calls = [c \in 1..Len(r.calls) |-> [r.calls[c] EXCEPT !.quiet = FALSE]]]

\* get(id): lines 24-26; 0 for undefined, else the entry whose resource is returned
RegGet(r, id) ==
    IF \E i \in 1..Len(r.map) : r.map[i].key = id
    THEN r.map[CHOOSE i \in 1..Len(r.map) : r.map[i].key = id].entry
    ELSE 0

\* the mutation: list() returns every entry ever added
RegList_everAdded(r) == [e \in 1..Len(r.entries) |-> e]

\* list(): lines 28-30; Array.from makes a new array of the values
RegList(r) == MapValues(r.map)

\* the mutation: disposeAll() ends without map.clear()
RegLoop_noClear(r, c) ==
    LET i == MapIterNext(r.map, r.calls[c].pos)
        e == r.map[i].entry
        kind == r.entries[e].kind
        called == [r EXCEPT !.calls[c].pos = i + 1,
                            !.invoked = Append(@, [entry |-> e, call |-> c,
                                                   overlapped |-> DisposerPending(r)])]
    IN IF i = 0
       THEN [r EXCEPT !.calls[c].pc = "resolved"]
       ELSE CASE kind = "none" ->
                   [r EXCEPT !.calls[c].pos = i + 1, !.queue = Append(@, c)]
              [] kind = "sync" ->
                   [called EXCEPT !.queue = Append(@, c)]
              [] kind = "throws" ->
                   [called EXCEPT !.calls[c].pc = "rejected", !.calls[c].error = e]
              [] OTHER ->
                   [called EXCEPT !.calls[c].pc = "awaiting", !.calls[c].awaited = e]

\* disposeAll(): lines 33-36, one turn of the loop for call c, from the iterator's
\* next() to the await (or to the end of the function)
RegLoop(r, c) ==
    LET i == MapIterNext(r.map, r.calls[c].pos)
        e == r.map[i].entry
        kind == r.entries[e].kind
        called == [r EXCEPT !.calls[c].pos = i + 1,
                            !.invoked = Append(@, [entry |-> e, call |-> c,
                                                   overlapped |-> DisposerPending(r)])]
    IN IF i = 0
       THEN [r EXCEPT !.map = MapClear(@), !.calls[c].pc = "resolved"]
       ELSE CASE kind = "none" ->
                   [r EXCEPT !.calls[c].pos = i + 1, !.queue = Append(@, c)]
              [] kind = "sync" ->
                   [called EXCEPT !.queue = Append(@, c)]
              [] kind = "throws" ->
                   [called EXCEPT !.calls[c].pc = "rejected", !.calls[c].error = e]
              [] OTHER ->
                   [called EXCEPT !.calls[c].pc = "awaiting", !.calls[c].awaited = e]

\* disposeAll(): the call, up to its first await.  present: the entries in the table
\* at the call; quiet: no other disposeAll() was in progress at the call, and there
\* was no add() and no other disposeAll() since
RegDisposeAll(r) ==
    LET c == Len(r.calls) + 1
        others == [k \in 1..Len(r.calls) |-> [r.calls[k] EXCEPT !.quiet = FALSE]]
        new == [pc |-> "ready", pos |-> 1, awaited |-> 0, error |-> 0,
                present |-> MapValues(r.map),
                quiet |-> \A k \in 1..Len(r.calls) :
                             r.calls[k].pc \in {"resolved", "rejected"}]
    IN RegLoop([r EXCEPT !.calls = Append(others, new)], c)

\* the promise a disposer returned settles: the awaiting call is resumed by a microtask
RegDisposerSettles(r, c) ==
    [r EXCEPT !.calls[c].pc = "ready", !.queue = Append(@, c)]

\* the mutation: a rejected disposer promise does not stop the loop
RegResume_ignoresRejection(r) ==
    LET c == Head(r.queue)
    IN RegLoop([r EXCEPT !.queue = Tail(@), !.calls[c].awaited = 0], c)

\* disposeAll(): resumed after `await entry.dispose?.()`: the await throws when the
\* promise was rejected, else the loop goes on
RegResume(r) ==
    LET c == Head(r.queue)
        e == r.calls[c].awaited
        q == [r EXCEPT !.queue = Tail(@), !.calls[c].awaited = 0]
    IN IF e # 0 /\ r.entries[e].kind = "rejects"
       THEN [q EXCEPT !.calls[c].pc = "rejected", !.calls[c].error = e]
       ELSE RegLoop(q, c)

Add ==
    /\ Len(reg.entries) < MaxAdds
    /\ \E id \in ResourceIds, kind \in DisposerKinds : reg' = RegAdd(reg, id, kind)
    /\ UNCHANGED <<sceneVars, surfVars, dh, bd>>

DisposeAll ==
    /\ Len(reg.calls) < MaxDisposeAlls
    /\ reg' = RegDisposeAll(reg)
    /\ UNCHANGED <<sceneVars, surfVars, dh, bd>>

\* disposeAll() called again, after or during an earlier call
DisposeAllAgain ==
    /\ Len(reg.calls) < MaxDisposeAgain
    /\ reg' = RegDisposeAll(reg)
    /\ UNCHANGED <<sceneVars, surfVars, dh, bd>>

List ==
    /\ reg' = [reg EXCEPT !.listed = RegList(reg)]
    /\ UNCHANGED <<sceneVars, surfVars, dh, bd>>

DisposerSettles ==
    /\ \E c \in 1..Len(reg.calls) :
         /\ reg.calls[c].pc = "awaiting"
         /\ reg' = RegDisposerSettles(reg, c)
    /\ UNCHANGED <<sceneVars, surfVars, dh, bd>>

RegistryMicrotask ==
    /\ reg.queue # <<>>
    /\ reg' = RegResume(reg)
    /\ UNCHANGED <<sceneVars, surfVars, dh, bd>>

---------------------------------------------------------------------------
(* src/unnamed/part_003: the compute-boids scene, its device acquisition and its
   timestamp readback buffers *)

\* timerSamples >= 100: the samples averaged into one line of the stats text
SampleWindow == 100

\* statsBlock.textContent before the first average
CollectingText == [avg |-> FALSE, spare |-> 0]

\* the mapAsync promise that settled last: its buffer, whether it resolved, and
\* whether the scene was disposed by then
noMap == [buffer |-> 0, resolved |-> FALSE, disposed |-> FALSE]

\* the particle buffers the passes of the last frame used; before the first frame, none
noPasses == [read |-> "", written |-> "", drawn |-> ""]

\* the mutation: both bind groups bind the buffers the same way round
particleBindGroups_same ==
    [i \in {0, 1} |-> [binding1 |-> 0, binding2 |-> 1]]

\* particleBindGroups[i]: binding 1 is particleBuffers[i], binding 2 is
\* particleBuffers[(i + 1) % 2] (binding 0, the parameters, is the same in both)
particleBindGroups ==
    [i \in {0, 1} |-> [binding1 |-> i, binding2 |-> (i + 1) % 2]]

\* updateSprites.wgsl, which is not among the sources: the compute shader reads the
\* particles at binding 1 and writes the particles at binding 2
ComputeReads(group) == group.binding1

ComputeWrites(group) == group.binding2

\* the compute pass with particleBindGroups[frameIndex % 2], the render pass with
\* particleBuffers[(frameIndex + 1) % 2], and frameIndex += 1; of frameIndex the
\* scene uses the parity only, and that is what the model keeps
BdPasses(b) ==
    [b EXCEPT !.passes = [read |-> ComputeReads(particleBindGroups[b.frameIndex % 2]),
                          written |-> ComputeWrites(particleBindGroups[b.frameIndex % 2]),
                          drawn |-> (b.frameIndex + 1) % 2],
              !.frameIndex = (@ + 1) % 2]

\* one mountComputeBoidsScene(root) call and the closure it builds; inits are the
\* requiredFeatures of the init calls made, rejection is what rejected the mount
NewBoids ==
    [pc |-> "none", inits |-> <<>>, warnings |-> 0, rejection |-> "",
     supportsTimestampQuery |-> FALSE, querySet |-> "none", resolveBuffer |-> "none",
     device |-> "none", buffers |-> <<>>, spareBuffers |-> <<>>,
     disposed |-> FALSE, raf |-> FALSE, lastFrame |-> "none",
     timerSamples |-> 0, statsText |-> CollectingText, disposeCalls |-> 0,
     lastMap |-> noMap, frameIndex |-> 0, passes |-> noPasses]

\* a readback buffer from device.createBuffer({usage: COPY_DST | MAP_READ})
NewReadback == [state |-> "unmapped", destroys |-> 0]

\* mountComputeBoidsScene up to initHostWithTimestampFallback's first init call
BdMount(b) ==
    [b EXCEPT !.pc = "init", !.inits = <<"timestamp-query">>]

\* initHostWithTimestampFallback: the first init settles; a failure is caught, warned
\* about and followed by an init without requiredFeatures
BdInit_noRetry(b, ok) ==
    IF ok THEN [b EXCEPT !.pc = "load", !.supportsTimestampQuery = TRUE, !.device = "live"]
    ELSE [b EXCEPT !.pc = "failed", !.rejection = "init"]

BdInit(b, ok) ==
    IF ok THEN [b EXCEPT !.pc = "load", !.supportsTimestampQuery = TRUE, !.device = "live"]
    ELSE [b EXCEPT !.pc = "retry", !.warnings = @ + 1, !.inits = Append(@, "")]

\* the second init settles; its failure leaves initHostWithTimestampFallback
BdRetry(b, ok) ==
    IF ok THEN [b EXCEPT !.pc = "load", !.supportsTimestampQuery = FALSE, !.device = "live"]
    ELSE [b EXCEPT !.pc = "failed", !.rejection = "init"]

\* the shaders arrive: query set and resolve buffer when timestamps are supported
\* (a device created with the feature required has it),
\* the first requestAnimationFrame(frame), the returned cleanup
BdLoaded(b, ok) ==
    IF ~ok THEN [b EXCEPT !.pc = "failed", !.rejection = "fetchShader"]
    ELSE [b EXCEPT !.pc = "mounted", !.raf = TRUE,
                   !.querySet = IF b.supportsTimestampQuery THEN "live" ELSE "none",
                   !.resolveBuffer = IF b.supportsTimestampQuery THEN "live" ELSE "none"]

\* readbackBuffer = spareBuffers.pop() || device.createBuffer(...)
BdTakeReadback_alwaysNew(b) ==
    [b EXCEPT !.buffers = Append(@, NewReadback)]

BdTakeReadback(b) ==
    IF b.spareBuffers # <<>>
    THEN [b EXCEPT !.spareBuffers = SubSeq(@, 1, Len(@) - 1)]
    ELSE [b EXCEPT !.buffers = Append(@, NewReadback)]

\* the buffer BdTakeReadback hands out
BdTaken(b) ==
    IF b.spareBuffers # <<>> THEN b.spareBuffers[Len(b.spareBuffers)]
    ELSE Len(b.buffers) + 1

\* frame(): the disposed check, the passes, the readback and the next request
BdFrame(b) ==
    IF b.disposed THEN [b EXCEPT !.raf = FALSE, !.lastFrame = "returned"]
    ELSE IF b.querySet = "live" /\ b.resolveBuffer = "live"
    THEN [BdTakeReadback(BdPasses(b)) EXCEPT !.buffers[BdTaken(b)].state = "mapping",
                                             !.lastFrame = "submitted", !.raf = TRUE]
    ELSE [BdPasses(b) EXCEPT !.lastFrame = "submitted", !.raf = TRUE]

\* readbackBuffer.destroy()
BdDestroy(b, i) ==
    [b EXCEPT !.buffers[i].state = "destroyed", !.buffers[i].destroys = @ + 1]

\* the .then callback of mapAsync: after disposal only a destroy; otherwise the
\* sample, the unmap, the stats line every SampleWindow samples, the push
BdMapped_noDisposedCheck(b, i, positive) ==
    LET n == IF positive THEN b.timerSamples + 1 ELSE b.timerSamples
        u == [b EXCEPT !.buffers[i].state = "unmapped"]
        s == IF n >= SampleWindow
             THEN [u EXCEPT !.timerSamples = 0,
                            !.statsText = [avg |-> TRUE, spare |-> Len(b.spareBuffers)]]
             ELSE [u EXCEPT !.timerSamples = n]
    IN [s EXCEPT !.spareBuffers = Append(@, i)]

BdMapped(b, i, positive) ==
    IF b.disposed THEN BdDestroy(b, i)
    ELSE BdMapped_noDisposedCheck(b, i, positive)

\* the .catch callback of mapAsync (its console.warn leaves the scene as it is)
BdMapFailed(b, i) == BdDestroy(b, i)

RECURSIVE BdDestroyAll(_, _)
BdDestroyAll(b, is) ==
    IF is = <<>> THEN b ELSE BdDestroyAll(BdDestroy(b, Head(is)), Tail(is))

\* disposeResources(), from the cleanup or from beforeunload
BdDispose(b) ==
    IF b.disposed THEN [b EXCEPT !.disposeCalls = @ + 1]
    ELSE [BdDestroyAll(b, b.spareBuffers) EXCEPT
            !.disposeCalls = @ + 1, !.disposed = TRUE, !.raf = FALSE, !.spareBuffers = <<>>,
            !.querySet = IF @ = "live" THEN "destroyed" ELSE @,
            !.resolveBuffer = IF @ = "live" THEN "destroyed" ELSE @,
            !.device = "destroyed"]

BoidsMount ==
    /\ bd.pc = "none"
    /\ bd' = BdMount(bd)
    /\ UNCHANGED <<sceneVars, surfVars, dh, reg>>

BoidsInitSettles ==
    /\ bd.pc = "init"
    /\ \E ok \in BOOLEAN : bd' = BdInit(bd, ok)
    /\ UNCHANGED <<sceneVars, surfVars, dh, reg>>

BoidsRetrySettles ==
    /\ bd.pc = "retry"
    /\ \E ok \in BOOLEAN : bd' = BdRetry(bd, ok)
    /\ UNCHANGED <<sceneVars, surfVars, dh, reg>>

BoidsLoadSettles ==
    /\ bd.pc = "load"
    /\ \E ok \in BOOLEAN : bd' = BdLoaded(bd, ok)
    /\ UNCHANGED <<sceneVars, surfVars, dh, reg>>

BoidsFrame ==
    /\ bd.pc = "mounted"
    /\ bd.raf
    /\ bd.spareBuffers = <<>> /\ bd.querySet = "live" => Len(bd.buffers) < MaxReadbacks
    /\ bd' = BdFrame(bd)
    /\ UNCHANGED <<sceneVars, surfVars, dh, reg>>

BoidsMapResolves ==
    /\ \E i \in 1..Len(bd.buffers), positive \in BOOLEAN :
         /\ bd.buffers[i].state = "mapping"
         /\ bd' = [BdMapped(bd, i, positive) EXCEPT
                    !.lastMap = [buffer |-> i, resolved |-> TRUE, disposed |-> bd.disposed]]
    /\ UNCHANGED <<sceneVars, surfVars, dh, reg>>

BoidsMapRejects ==
    /\ \E i \in 1..Len(bd.buffers) :
         /\ bd.buffers[i].state = "mapping"
         /\ bd' = [BdMapFailed(bd, i) EXCEPT
                    !.lastMap = [buffer |-> i, resolved |-> FALSE, disposed |-> bd.disposed]]
    /\ UNCHANGED <<sceneVars, surfVars, dh, reg>>

BoidsDispose ==
    /\ bd.pc = "mounted"
    /\ bd.disposeCalls < MaxBoidsDisposes
    /\ bd' = BdDispose(bd)
    /\ UNCHANGED <<sceneVars, surfVars, dh, reg>>

SceneInit ==
    /\ mountToken = 0
    /\ activeSceneId = defaultSceneId
    /\ activeCleanup = 0
    /\ sceneRoot = {}
    /\ calls = <<>>
    /\ insts = <<>>
    /\ modAC = [k \in SceneIds |-> 0]
    /\ runs = <<>>
    /\ microQ = <<>>
    /\ consoleErrors = 0
    /\ hotDisposals = 0
    /\ failures = 0

SurfInit ==
    /\ sm = NewSurfaceManager
    /\ canvas = [width |-> 300, height |-> 150, clientWidth |-> 0, clientHeight |-> 0]
    /\ gpu = <<>>
    /\ window = [devicePixelRatio |-> <<2, 1>>]
    /\ providerSize = <<<<1, 2>>, <<3, 1>>>>
    /\ last = Called("none", FALSE)

KernelInit ==
    /\ dh = NoDeviceHost
    /\ reg = NewRegistry
    /\ bd = NewBoids

Init == SceneInit /\ SurfInit /\ KernelInit

\* the Scene Host with every browser request succeeding
Next ==
    \/ Microtask
    \/ ActivateScene
    \/ InitOk
    \/ LoadOk
    \/ Frame

Spec == Init /\ [][Next]_vars

\* ... with hot module replacement
NextHot ==
    \/ Microtask
    \/ ActivateSceneHot
    \/ InitOk
    \/ LoadOk
    \/ Frame
    \/ HotDispose

SpecHot == Init /\ [][NextHot]_vars

\* ... with browser requests that fail
NextFail ==
    \/ Microtask
    \/ ActivateSceneFail
    \/ InitOk
    \/ InitFail
    \/ LoadOk
    \/ LoadFail
    \/ Frame

SpecFail == Init /\ [][NextFail]_vars

\* a scene driven directly through its mount / cleanup contract
NextScene ==
    \/ Microtask
    \/ HarnessMount
    \/ InitOk
    \/ LoadOk
    \/ Frame
    \/ InvokeCleanup

SpecScene == Init /\ [][NextScene]_vars

\* the Scene Host with scenes whose cleanup may throw
NextThrow ==
    \/ Microtask
    \/ ActivateSceneThrow
    \/ InitOk
    \/ LoadOk
    \/ Frame
    \/ CleanupThrows

SpecThrow == Init /\ [][NextThrow]_vars

\* the same harness in a window that dispatches 'beforeunload' and stays open
NextUnload ==
    \/ Microtask
    \/ HarnessMount
    \/ InitOk
    \/ LoadOk
    \/ Frame
    \/ InvokeCleanup
    \/ BeforeUnload

SpecUnload == Init /\ [][NextUnload]_vars

\* a DeviceHost, from the init call on, with the surface it configures
NextDevice ==
    \/ InitCall
    \/ RequestAdapterSettles
    \/ RequestDeviceSettles
    \/ UncapturedError
    \/ DeviceLost
    \/ HostDisposeCall
    \/ HostDisposeMicrotask
    \/ ConfigureSurface
    \/ Layout
    \/ ChangeDpr

SpecDevice == Init /\ [][NextDevice]_vars

\* a ResourceRegistry driven through its interface
NextRegistry ==
    \/ Add
    \/ List
    \/ DisposeAll
    \/ DisposerSettles
    \/ RegistryMicrotask

SpecRegistry == Init /\ [][NextRegistry]_vars

\* a ResourceRegistry whose disposeAll() is called more than once
NextRegistryAgain ==
    \/ Add
    \/ DisposeAllAgain
    \/ DisposerSettles
    \/ RegistryMicrotask

SpecRegistryAgain == Init /\ [][NextRegistryAgain]_vars

\* a CanvasSurfaceManager driven through its interface
NextSurface ==
    \/ Configure
    \/ Resize
    \/ AcquireFrame
    \/ Dispose
    \/ Layout
    \/ ChangeDpr

SpecSurface == Init /\ [][NextSurface]_vars

\* one compute-boids scene: mounting, frames, readbacks and disposal
NextBoids ==
    \/ BoidsMount
    \/ BoidsInitSettles
    \/ BoidsRetrySettles
    \/ BoidsLoadSettles
    \/ BoidsFrame
    \/ BoidsMapResolves
    \/ BoidsMapRejects
    \/ BoidsDispose

SpecBoids == Init /\ [][NextBoids]_vars

---------------------------------------------------------------------------
(* What the checked properties speak about *)

\* every activateScene call has returned
Settled == Idle /\ \A c \in 1..Len(calls) : calls[c].pc \in {"done", "failed"}

\* a call of instance i's cleanup function has resolved
CleanupResolved(i) == \E r \in 1..Len(runs) : runs[r].i = i /\ runs[r].done

\* window listeners ('resize', 'beforeunload') a scene instance has attached
ListenersOf(x) == (IF x.resize THEN 1 ELSE 0) + (IF x.unload THEN 1 ELSE 0)

Listeners(i) == ListenersOf(insts[i])

\* GPU objects of a scene instance that are alive: its device, and the buffers and
\* textures created from it (destroying a device destroys what was created from it)
LiveGpuOf(x) ==
    IF x.device # "live" THEN 0
    ELSE 1 + (IF x.buffers = "live" THEN 1 ELSE 0)
           + (IF x.surface = "configured" \/ x.depthTex THEN 1 ELSE 0)

LiveGpu(i) == LiveGpuOf(insts[i])

\* the instance a first, undisturbed mount of a scene leaves behind: the baseline
Baseline(kind) ==
    LET s0 == [mountToken |-> 0, activeSceneId |-> defaultSceneId, activeCleanup |-> 0,
               sceneRoot |-> {}, calls |-> <<>>, insts |-> <<>>,
               modAC |-> [k \in SceneIds |-> 0], runs |-> <<>>, microQ |-> <<>>,
               consoleErrors |-> 0, hotDisposals |-> 0, failures |-> 0]
    IN LoadResolved(InitResolved(SceneMount(s0, 0, kind), 1), 1).insts[1]

\* everything the mount of instance i set up has been torn down
TornDown(i) ==
    /\ ~insts[i].raf
    /\ Listeners(i) = 0
    /\ LiveGpu(i) = 0
    /\ insts[i].buffers = "destroyed"
    /\ insts[i].device = "destroyed"
    /\ ~insts[i].errSub

RECURSIVE SumOver(_, _)
SumOver(F(_), n) == IF n = 0 THEN 0 ELSE F(n) + SumOver(F, n - 1)

---------------------------------------------------------------------------
(* C1 *)

\* C1: a mount result is installed as the active cleanup only while its call's token is
\* the current mountToken; a result whose call was superseded has its cleanup invoked
\* at once and is never installed; and when overlapping activateScene calls have all
\* returned, the scene of the last call is the active one and every other mounted
\* instance has had its cleanup invoked.
C1_OnlyLatestInstalled ==
    /\ activeCleanup # 0 =>
         /\ insts[activeCleanup].call # 0
         /\ calls[insts[activeCleanup].call].token = mountToken
         /\ calls[insts[activeCleanup].call].pc = "done"
    /\ \A c \in 1..Len(calls) :
         /\ calls[c].pc = "stale" =>
              /\ calls[c].token < mountToken
              /\ insts[calls[c].inst].nInvoked = 1
              /\ activeCleanup # calls[c].inst
         /\ (calls[c].pc = "done" /\ calls[c].token < mountToken) =>
              /\ activeCleanup # calls[c].inst
              /\ insts[calls[c].inst].nInvoked = 1
    /\ (Settled /\ calls # <<>>) =>
         /\ activeCleanup = calls[Len(calls)].inst
         /\ activeSceneId = calls[Len(calls)].scene
         /\ \A i \in 1..Len(insts) : i # activeCleanup => CleanupResolved(i)

\* two calls overlapped (the second began while the first had installed nothing), both
\* have returned, the first mount was cleaned as stale and the second is installed
C1_Witness ==
    /\ Len(calls) >= 2
    /\ Settled
    /\ calls[2].out = 0
    /\ calls[1].inst # 0
    /\ insts[calls[1].inst].phase = "mounted"
    /\ insts[calls[1].inst].nInvoked = 1
    /\ activeCleanup = calls[2].inst
    /\ activeCleanup # 0

---------------------------------------------------------------------------
(* C2 *)

\* C2: when activateScene starts the incoming scene's mount, the cleanup of the scene
\* that was active when the call began has run to completion: its promise has resolved
\* and its frame request, listeners, GPU resources and device are gone.
C2_CleanupBeforeMount ==
    \A c \in 1..Len(calls) :
        (calls[c].pc # "cleaning" /\ calls[c].out # 0) =>
            /\ CleanupResolved(calls[c].out)
            /\ TornDown(calls[c].out)
            /\ insts[calls[c].out].cbs = <<>>

\* a call that replaced an active scene has started its mount
C2_Witness ==
    \E c \in 1..Len(calls) :
        /\ calls[c].out # 0
        /\ calls[c].inst # 0
        /\ insts[calls[c].inst].phase = "init"
        /\ insts[calls[c].out].kind = "msdf-text"

---------------------------------------------------------------------------
(* C3 *)

\* C3 as stated: at every instant at most one scene has a scheduled frame callback
C3_AtMostOneLoopEveryInstant ==
    Cardinality({i \in 1..Len(insts) : insts[i].raf}) <= 1

\* C3: whenever the event loop is between tasks (the only moments at which a frame
\* callback can run), a scene that has a frame callback scheduled is the one installed
\* as the active scene; so at most one frame loop is live, and no frame of a
\* superseded or cleaned-up scene ever runs next to the active one.
C3_OneLoopBetweenTasks ==
    Idle =>
        /\ \A i \in 1..Len(insts) : insts[i].raf => activeCleanup = i
        /\ Cardinality({i \in 1..Len(insts) : insts[i].raf}) <= 1

\* a superseded mount has finished (and requested its first frame) while a newer
\* scene is mounting, and the task that resolved it has ended
C3_Witness ==
    /\ Idle
    /\ \E c \in 1..Len(calls) :
         /\ calls[c].token < mountToken
         /\ calls[c].inst # 0
         /\ insts[calls[c].inst].phase = "mounted"
         /\ calls[c].out = 0
         /\ CleanupResolved(calls[c].inst)
    /\ \E i \in 1..Len(insts) : insts[i].raf

---------------------------------------------------------------------------
(* C4 *)

\* C4: the Scene Host (activateScene, cleanupActiveScene and the hot-reload dispose
\* hook together) invokes the cleanup of a mounted instance at most once, and the one
\* cleanup it holds as active is one it has not invoked.
C4_CleanupAtMostOnce ==
    /\ \A i \in 1..Len(insts) : insts[i].nInvoked <= 1
    /\ activeCleanup # 0 => insts[activeCleanup].nInvoked = 0

\* the dispose hook has invoked the cleanup of one instance and a scene switch
\* (cleanupActiveScene) that of another, and both cleanups have resolved
C4_Witness ==
    /\ hotDisposals >= 1
    /\ \E r \in 1..Len(runs) : runs[r].w = NoK /\ runs[r].done
    /\ \E c \in 1..Len(calls) : calls[c].out # 0 /\ CleanupResolved(calls[c].out)

---------------------------------------------------------------------------
(* C5 *)

\* C5: however often, and however interleaved, the cleanup function of a mounted
\* scene is called (a second call after the first has resolved, or while it is still
\* running), each teardown effect happens at most once: buffers and device are
\* destroyed once, DeviceHost.dispose is entered once, each listener is removed once,
\* the frame request is cancelled once and the container is removed once; and once a
\* call has resolved the instance is torn down and stays so.
C5_CleanupIdempotent ==
    \A i \in 1..Len(insts) :
        /\ insts[i].nBuf <= 1
        /\ insts[i].nDev <= 1
        /\ insts[i].nHostDispose <= 1
        /\ insts[i].nRmResize <= 1
        /\ insts[i].nRmUnload <= 1
        /\ insts[i].nCancel <= 1
        /\ insts[i].nRmContainer <= 1
        /\ (insts[i].nInvoked >= 1 /\ Idle) => (TornDown(i) /\ insts[i].cbs = <<>>)

\* the cleanup of a points instance was called a second time while its first call was
\* still waiting for DeviceHost.dispose(), and the second call has resolved
C5_Witness ==
    \E r1, r2 \in 1..Len(runs) :
        /\ r1 < r2
        /\ runs[r1].i = runs[r2].i
        /\ ~runs[r1].done
        /\ runs[r2].done
        /\ insts[runs[r1].i].kind = "points"
        /\ insts[runs[r1].i].nInvoked = 2
        /\ insts[runs[r1].i].nHostDispose = 1

---------------------------------------------------------------------------
(* C6 *)

\* C6: once the cleanup of a scene instance has resolved, none of its window listeners
\* ('resize', 'beforeunload') is attached and none of its GPU objects is alive; and
\* after activating msdf-text, then points, then msdf-text again (each after the
\* previous mount was installed), the attached listeners and live GPU objects are
\* exactly those of the one active msdf-text instance, the same numbers as after the
\* first mount.
C6_BackToBaseline ==
    /\ \A i \in 1..Len(insts) :
         CleanupResolved(i) => (Listeners(i) = 0 /\ LiveGpu(i) = 0 /\ ~insts[i].errSub)
    /\ ( /\ Settled
         /\ Len(calls) = 3
         /\ calls[1].scene = "msdf-text"
         /\ calls[2].scene = "points"
         /\ calls[3].scene = "msdf-text"
         /\ calls[2].out = calls[1].inst
         /\ calls[3].out = calls[2].inst )
       => /\ activeCleanup = calls[3].inst
          /\ SumOver(Listeners, Len(insts)) = ListenersOf(Baseline("msdf-text"))
          /\ SumOver(LiveGpu, Len(insts)) = LiveGpuOf(Baseline("msdf-text"))
          /\ Listeners(activeCleanup) = ListenersOf(Baseline("msdf-text"))
          /\ LiveGpu(activeCleanup) = LiveGpuOf(Baseline("msdf-text"))
          /\ sceneRoot = {activeCleanup}

\* msdf-text, points, msdf-text were activated one after the other and the last mount
\* is installed, with its listeners attached and its frame loop running
C6_Witness ==
    /\ Settled
    /\ Len(calls) = 3
    /\ calls[1].scene = "msdf-text" /\ calls[2].scene = "points"
    /\ calls[3].scene = "msdf-text"
    /\ calls[2].out = calls[1].inst /\ calls[1].inst # 0
    /\ calls[3].out = calls[2].inst /\ calls[2].inst # 0
    /\ insts[calls[2].inst].depthTex = FALSE
    /\ insts[calls[2].inst].nCancel = 1
    /\ activeCleanup = calls[3].inst
    /\ Listeners(activeCleanup) > 1
    /\ insts[activeCleanup].raf

---------------------------------------------------------------------------
(* C7 *)

\* C7: in every state in which a call of a scene's cleanup by the Scene Host has
\* resolved, that scene has no frame callback scheduled, its buffers are destroyed,
\* DeviceHost.dispose() has run to its end (disposables drained, error listener
\* detached, device.destroy() called) and no GPU object of the scene is alive; for
\* all five scenes.
C7_ResolvedMeansDisposed ==
    \A r \in 1..Len(runs) :
        runs[r].done =>
            LET x == insts[runs[r].i]
            IN /\ ~x.raf
               /\ x.buffers = "destroyed"
               /\ x.nHostDispose = 1
               /\ x.disposables = 0
               /\ ~x.errSub
               /\ x.device = "destroyed"
               /\ x.nDev = 1
               /\ LiveGpuOf(x) = 0

\* the host's cleanup of a msdf-text instance (which does not await its
\* disposeResources) and of a points instance (which does) have both resolved
C7_Witness ==
    /\ \E r \in 1..Len(runs) :
         runs[r].done /\ insts[runs[r].i].kind = "msdf-text"
                      /\ runs[r].w.k = "cas_afterCleanup"
    /\ \E r \in 1..Len(runs) :
         runs[r].done /\ insts[runs[r].i].kind = "points"

---------------------------------------------------------------------------
(* C8 *)

\* C8: a resize() on a configured manager that holds a depth texture and computes the
\* backing size it already has keeps that depth texture: it destroys nothing and
\* allocates nothing.
C8_DepthTextureReused ==
    [][ ( /\ last'.op = "resize"
          /\ sm.config.set /\ sm.context
          /\ sm.internalDepthFormat # ""
          /\ sm.depthTexture # 0
          /\ sm.currentSize.set
          /\ sm'.currentSize = sm.currentSize )
        => (sm'.depthTexture = sm.depthTexture /\ gpu' = gpu) ]_vars

---------------------------------------------------------------------------
(* C9 *)

\* the logical size a resize() reads at present
LogicalNow ==
    IF sm.config.sizeProvider THEN providerSize
    ELSE <<<<canvas.clientWidth, 1>>, <<canvas.clientHeight, 1>>>>

\* n/d lies in [k, k + 1): k is the floor of n/d (d > 0)
IsFloor(k, n, d) == k * d <= n /\ n < (k + 1) * d

\* max(1, floor(logical * dpr)) said without computing it
IsBackingSize(k, logical, dpr) ==
    LET n == Num(logical) * Num(dpr)
        d == Den(logical) * Den(dpr)
    IN IF n >= d THEN IsFloor(k, n, d) ELSE k = 1

\* C9: right after a resize() that took effect (also the one configure makes), with a
\* device-pixel-ratio >= 1 and whatever logical size the size provider or the canvas
\* reports (0, negative, fractional), the backing width and height of the canvas and
\* of the recorded size are max(1, floor(logical * dpr)); and in every configured
\* state both are integers >= 1.
C9_BackingSizeAtLeastOne ==
    /\ sm.currentSize.set =>
         /\ sm.currentSize.width \in Nat \ {0}
         /\ sm.currentSize.height \in Nat \ {0}
         /\ canvas.width = sm.currentSize.width
         /\ canvas.height = sm.currentSize.height
    /\ ( /\ last.op \in {"resize", "configure"}
         /\ sm.config.set /\ sm.context
         /\ Num(window.devicePixelRatio) >= Den(window.devicePixelRatio) )
       => /\ sm.currentSize.set
          /\ sm.currentSize.devicePixelRatio = window.devicePixelRatio
          /\ IsBackingSize(sm.currentSize.width, LogicalNow[1], window.devicePixelRatio)
          /\ IsBackingSize(sm.currentSize.height, LogicalNow[2], window.devicePixelRatio)

\* resize() ran with a size provider reporting -1.5 x 2.5 at device-pixel-ratio 1.5
C9_Witness ==
    /\ last.op = "resize"
    /\ sm.config.set /\ sm.context /\ sm.config.sizeProvider
    /\ providerSize = <<<<-3, 2>>, <<5, 2>>>>
    /\ window.devicePixelRatio = <<3, 2>>
    /\ sm.currentSize.set
    /\ sm.currentSize.height > 1

---------------------------------------------------------------------------
(* C10 *)

\* C10: on a manager without configuration (never configured, or disposed since) a call
\* of acquireFrame() throws and a call of resize() returns, and neither changes a field
\* of the manager, the canvas or the device's textures.
C10_UnconfiguredIsInert ==
    [][ (~sm.config.set /\ last'.op \in {"acquireFrame", "resize"})
        => /\ sm' = sm
           /\ gpu' = gpu
           /\ canvas' = canvas
           /\ (last'.op = "acquireFrame" => last'.threw)
           /\ (last'.op = "resize" => ~last'.threw) ]_vars

\* acquireFrame() has thrown on a manager that was configured with a depth format and
\* then disposed
C10_Witness ==
    /\ last.op = "acquireFrame"
    /\ last.threw
    /\ ~sm.config.set
    /\ ~sm.currentSize.set
    /\ sm.internalDepthFormat # ""
    /\ Len(gpu) > 0

---------------------------------------------------------------------------
(* C11 *)

\* C11: a dispose() leaves the manager without config, context, size and depth
\* texture, has destroyed the depth texture it held (and no other texture), and does
\* not touch the canvas; a dispose() that directly follows a dispose() changes nothing
\* at all: no field of the manager and no texture.
C11_DisposeIdempotent ==
    [][ last'.op = "dispose"
        => /\ ~sm'.config.set /\ ~sm'.context /\ ~sm'.currentSize.set
           /\ sm'.depthTexture = 0
           /\ Len(gpu') = Len(gpu)
           /\ \A t \in 1..Len(gpu) :
                IF t = sm.depthTexture
                THEN ~gpu'[t].live /\ gpu'[t].destroys = gpu[t].destroys + 1
                ELSE gpu'[t] = gpu[t]
           /\ canvas' = canvas
           /\ (last.op = "dispose" => (sm' = sm /\ gpu' = gpu)) ]_vars

\* dispose() has run on a manager that held a depth texture: the texture was destroyed
\* once and the manager is cleared (a further dispose() from here is a step to the
\* same state)
C11_Witness ==
    /\ last.op = "dispose"
    /\ ~sm.config.set /\ sm.depthTexture = 0
    /\ Len(gpu) = 2
    /\ gpu[1].destroys = 1 /\ gpu[2].destroys = 1
    /\ ~gpu[2].live

---------------------------------------------------------------------------
(* C12 *)

\* C12: while a config is held (from a configure() until the next configure() or a
\* dispose()), whatever resize() and acquireFrame() calls happen, the manager's format
\* is the one that configure() fixed, and a FrameContext just returned reports that
\* format and views the depth texture the manager holds; an acquireFrame() step changes
\* neither the held depth texture nor any texture, so frames with no resize between
\* them view the same depth texture.
C12_FormatStable ==
    [][ /\ sm'.config.set => sm'.internalFormat =
              (IF sm'.config.format # "" THEN sm'.config.format ELSE PreferredCanvasFormat)
        /\ (last'.op \in {"resize", "acquireFrame"} /\ sm.config.set)
              => (sm'.internalFormat = sm.internalFormat /\ sm'.config = sm.config)
        /\ (last'.op = "acquireFrame" /\ ~last'.threw)
              => /\ last'.frame.presentationFormat = sm.internalFormat
                 /\ last'.frame.depthView = sm.depthTexture
        /\ last'.op = "acquireFrame"
              => (sm'.depthTexture = sm.depthTexture /\ gpu' = gpu)
        /\ (last.op = "acquireFrame" /\ last'.op = "acquireFrame" /\ ~last.threw)
              => last'.frame = last.frame ]_vars

\* a frame was acquired from a manager configured with an explicit format and a depth
\* format, after a resize() that followed the configure(): the frame reports the
\* explicit format and views the second depth texture
C12_Witness ==
    /\ last.op = "acquireFrame" /\ ~last.threw
    /\ sm.config.format = "rgba8unorm"
    /\ last.frame.presentationFormat = "rgba8unorm"
    /\ Len(gpu) = 2 /\ last.frame.depthView = 2

---------------------------------------------------------------------------
(* C13 *)

\* C13: whenever the config the manager holds has no depth format, the manager holds
\* no depth texture, and a FrameContext just returned has no depth view.
C13_NoDepthFormatNoDepthTexture ==
    (sm.config.set /\ sm.config.depthFormat = "")
        => /\ sm.depthTexture = 0
           /\ (last.op = "acquireFrame" /\ ~last.threw) => last.frame.depthView = 0

---------------------------------------------------------------------------
(* C14 *)

\* C14: when init has failed because the graphics API is absent or because no adapter
\* could be acquired, and onError was supplied, onError has been invoked exactly once,
\* with the error init threw.
C14_EarlyFailureReported ==
    (dh.pc = "rejected" /\ dh.rejection \in {ErrNoWebGPU, ErrNoAdapter} /\ dh.options.onError)
        => /\ Len(dh.onErrorCalls) = 1
           /\ dh.onErrorCalls[1].error = dh.rejection

---------------------------------------------------------------------------
(* C15 *)

\* what init's catch block passes to onError for a rejection value
Reported(e) == IF IsError(e) THEN e ELSE ErrInitFailed

\* C15 as stated: when the device request has failed, onError (if supplied) has been
\* invoked exactly once, before the init promise settled, with the very value the
\* promise rejects with; no host is returned.
C15_DeviceFailureSameError ==
    (dh.pc = "rejected" /\ dh.rejection \in RequestDeviceRejections)
        => /\ dh.options.onError =>
                 /\ Len(dh.onErrorCalls) = 1
                 /\ ~dh.onErrorCalls[1].initSettled
                 /\ dh.onErrorCalls[1].error = dh.rejection
           /\ ~dh.options.onError => dh.onErrorCalls = <<>>

\* C15, amended: when the device request has failed, the init promise rejects with the
\* rejection value of the request and never yields a host (no listener, no reaction,
\* no disposable was set up); onError (if supplied) has been invoked exactly once,
\* before the promise settled, with that value when it is an Error and with a new
\* Error 'Failed to initialize GPU device.' when it is not.
C15_DeviceFailureReported ==
    (dh.pc = "rejected" /\ dh.rejection \in RequestDeviceRejections)
        => /\ dh.options.onError =>
                 /\ Len(dh.onErrorCalls) = 1
                 /\ ~dh.onErrorCalls[1].initSettled
                 /\ dh.onErrorCalls[1].error = Reported(dh.rejection)
           /\ ~dh.options.onError => dh.onErrorCalls = <<>>
           /\ ~dh.listener /\ ~dh.lostThen /\ dh.disposables = 0
           /\ dh.disposeCalls = 0 /\ dh.destroys = 0

\* the device request was rejected with a value that is not an Error, and onError
\* was told once, with the substitute Error
C15_Witness ==
    /\ dh.pc = "rejected"
    /\ dh.rejection = "not an Error"
    /\ dh.options.onError
    /\ Len(dh.onErrorCalls) = 1
    /\ dh.onErrorCalls[1].error = ErrInitFailed

---------------------------------------------------------------------------
(* C16 *)

\* C16: no invocation of onError happens after dispose() has been called, neither for
\* an uncaptured error nor for the loss of the device.
C16_SilentAfterDispose ==
    \A k \in 1..Len(dh.onErrorCalls) : ~dh.onErrorCalls[k].afterDispose

---------------------------------------------------------------------------
(* C17 *)

\* C17: a configureSurface() on a host whose options have no canvas throws the
\* missing-canvas error and changes nothing of the SurfaceManager, its canvas or its
\* textures; on a host with a canvas it does not throw, and the SurfaceManager then
\* holds a config with the format, depth format and size provider of the init options
\* (and nothing else), the context of that canvas, and the formats that config fixes.
C17_ConfigureSurface ==
    [][ last'.op = "configureSurface"
        => IF ~dh.options.canvas
           THEN last'.threw /\ sm' = sm /\ canvas' = canvas /\ gpu' = gpu
           ELSE /\ ~last'.threw
                /\ sm'.config = [set |-> TRUE,
                                 format |-> dh.options.format,
                                 depthFormat |-> dh.options.depthFormat,
                                 sizeProvider |-> dh.options.sizeProvider,
                                 alphaMode |-> ""]
                /\ sm'.internalFormat = (IF dh.options.format # "" THEN dh.options.format
                                         ELSE PreferredCanvasFormat)
                /\ sm'.internalDepthFormat = dh.options.depthFormat
                /\ (sm'.context => sm'.currentSize.set) ]_vars

\* a host with a canvas, an explicit format, a depth format and a size provider has
\* configured the surface
C17_Witness ==
    /\ last.op = "configureSurface" /\ ~last.threw
    /\ dh.options.canvas /\ dh.options.sizeProvider
    /\ sm.config.set /\ sm.context
    /\ sm.internalFormat = "rgba8unorm"
    /\ sm.internalDepthFormat = "depth24plus"
    /\ sm.depthTexture # 0

---------------------------------------------------------------------------
(* C18 *)

\* the canvas measures 300x150 CSS pixels on a screen of device-pixel-ratio 2
Scenario1 ==
    /\ canvas.clientWidth = 300 /\ canvas.clientHeight = 150
    /\ window.devicePixelRatio = <<2, 1>>

\* the backing buffer is 600x300: the canvas and the size of the FrameContext that
\* acquireFrame() returns
Backing600x300 ==
    /\ canvas.width = 600 /\ canvas.height = 300
    /\ ~SmAcquireThrows(sm)
    /\ SmAcquireFrame(sm).size.width = 600
    /\ SmAcquireFrame(sm).size.height = 300

\* C18 as stated: after init({}) (no option given, so no canvas) a configureSurface()
\* in scenario 1 leaves a configured surface with a 600x300 backing buffer.
C18_EmptyOptions600x300 ==
    (last.op = "configureSurface" /\ dh.options = emptyOptions /\ Scenario1)
        => Backing600x300

\* C18, amended: after init({ canvas }) with no surfaceConfig, a configureSurface() in
\* scenario 1, with the canvas yielding a 'webgpu' context, leaves a configured surface
\* with a 600x300 backing buffer.
C18_CanvasOption600x300 ==
    ( /\ last.op = "configureSurface"
      /\ dh.options = [emptyOptions EXCEPT !.canvas = TRUE, !.onError = dh.options.onError]
      /\ sm.context
      /\ Scenario1 )
        => ~last.threw /\ Backing600x300

\* init({ canvas }), then configureSurface() in scenario 1: 600x300
C18_Witness ==
    /\ last.op = "configureSurface"
    /\ dh.options = [emptyOptions EXCEPT !.canvas = TRUE]
    /\ sm.context
    /\ Scenario1
    /\ canvas.width = 600 /\ sm.currentSize.height = 300

---------------------------------------------------------------------------
(* C19, C20 *)

\* the entries whose disposer disposeAll() call c has invoked, in order of invocation
InvokedBy(c) ==
    LET mine == SelectSeq(reg.invoked, LAMBDA v : v.call = c)
    IN [k \in 1..Len(mine) |-> mine[k].entry]

\* the entries of a sequence that have a disposal callback
WithDisposer(es) == SelectSeq(es, LAMBDA e : reg.entries[e].kind # "none")

\* the first and the latest add() of an id
FirstAdd(id) == CHOOSE e \in 1..Len(reg.entries) :
                   /\ reg.entries[e].id = id
                   /\ \A f \in 1..(e - 1) : reg.entries[f].id # id
LatestAdd(id) == CHOOSE e \in 1..Len(reg.entries) :
                    /\ reg.entries[e].id = id
                    /\ \A f \in (e + 1)..Len(reg.entries) : reg.entries[f].id # id

C20_FailureStops ==
    \A c \in 1..Len(reg.calls) :
       /\ \A k \in 1..Len(reg.invoked) :
             LET e == reg.invoked[k].entry
             IN (reg.invoked[k].call = c /\ reg.entries[e].kind \in {"throws", "rejects"})
                  => /\ \A l \in (k + 1)..Len(reg.invoked) : reg.invoked[l].call # c
                     /\ \/ reg.calls[c].pc = "rejected" /\ reg.calls[c].error = e
                        \/ /\ reg.entries[e].kind = "rejects"
                           /\ reg.calls[c].pc \in {"awaiting", "ready"}
                           /\ reg.calls[c].awaited = e
       /\ reg.calls[c].pc = "rejected"
             => /\ reg.calls[c].error # 0
                /\ reg.entries[reg.calls[c].error].kind \in {"throws", "rejects"}

\* two entries with disposers, the promise of the first one's was rejected:
\* disposeAll() has rejected with that error and the second disposer was not invoked
C20_Witness ==
    /\ Len(reg.entries) = 2
    /\ reg.entries[1].id = "a" /\ reg.entries[1].kind = "rejects"
    /\ reg.entries[2].id = "b" /\ reg.entries[2].kind = "sync"
    /\ Len(reg.calls) = 1 /\ reg.calls[1].present = <<1, 2>>
    /\ reg.calls[1].pc = "rejected" /\ reg.calls[1].error = 1
    /\ InvokedBy(1) = <<1>>

---------------------------------------------------------------------------
(* C21 *)

\* C21: get(id) is undefined as long as the id was never added.  An add(entry) step
\* invokes no disposer, makes get(entry.id) return the new entry's resource and leaves
\* get() of every other id as it was.  Every other step leaves get(id) as it was or,
\* when it is the end of a disposeAll() (which clears the table), undefined; once a
\* disposeAll() resolves, get(id) is undefined for every id.
C21_AddReplacesGetLatest ==
    [][ /\ \A id \in ResourceIds :
             (\A e \in 1..Len(reg'.entries) : reg'.entries[e].id # id)
                => RegGet(reg', id) = 0
        /\ Len(reg'.entries) = Len(reg.entries) + 1
             => LET e == Len(reg'.entries)
                IN /\ reg'.invoked = reg.invoked
                   /\ RegGet(reg', reg'.entries[e].id) = e
                   /\ \A id \in ResourceIds \ {reg'.entries[e].id} :
                         RegGet(reg', id) = RegGet(reg, id)
        /\ Len(reg'.entries) = Len(reg.entries)
             => \A id \in ResourceIds :
                   IF \E c \in 1..Len(reg'.calls) :
                         /\ reg'.calls[c].pc = "resolved"
                         /\ (c > Len(reg.calls) \/ reg.calls[c].pc # "resolved")
                   THEN RegGet(reg', id) = 0
                   ELSE RegGet(reg', id) = RegGet(reg, id) ]_vars

\* id "a" was added twice, the first time with a disposer: get("a") is the second
\* entry and no disposer was invoked
C21_Witness ==
    /\ Len(reg.entries) = 2
    /\ reg.entries[1].id = "a" /\ reg.entries[1].kind = "sync"
    /\ reg.entries[2].id = "a"
    /\ RegGet(reg, "a") = 2 /\ RegGet(reg, "b") = 0
    /\ reg.invoked = <<>>
    /\ reg.calls = <<>>

---------------------------------------------------------------------------
(* C22 *)

\* the ids in the table, in the table's order, each with its entry
TableOf(r) ==
    LET live == SelectSeq(r.map, LAMBDA x : x.key # "")
    IN [i \in 1..Len(live) |-> <<live[i].key, live[i].entry>>]

\* C22: the array a list() call returns holds the entries that are in the table at
\* the call, one per id, in the table's order; and no later step of the registry (an
\* add(), a disposeAll() call or any of its turns, the clear() at its end) changes the
\* array the caller holds.
C22_ListIsSnapshot ==
    [][ IF reg'.map = reg.map /\ reg'.entries = reg.entries /\ reg'.calls = reg.calls
              /\ reg'.queue = reg.queue /\ reg'.invoked = reg.invoked
        THEN /\ Len(reg'.listed) = Len(TableOf(reg))
             /\ \A i \in 1..Len(reg'.listed) : reg'.listed[i] = TableOf(reg)[i][2]
        ELSE reg'.listed = reg.listed ]_vars

\* the caller holds the array <<a, b>> of two entries while the table has been emptied
\* by a disposeAll() that resolved after the list() call
C22_Witness ==
    /\ reg.listed = <<1, 2>>
    /\ MapValues(reg.map) = <<>>
    /\ Len(reg.calls) = 1 /\ reg.calls[1].pc = "resolved"
    /\ reg.calls[1].present = <<1, 2>>

---------------------------------------------------------------------------
(* C23 *)

\* C23: when the latest activateScene() call has ended in a failed mount of a scene
\* other than the default scene and nothing is pending any more, the default scene is
\* the one that is mounted and installed.
C23_FallsBackToDefault ==
    ( /\ Settled
      /\ calls # <<>>
      /\ calls[Len(calls)].pc = "failed"
      /\ calls[Len(calls)].scene # defaultSceneId )
        => /\ activeCleanup # 0
           /\ insts[activeCleanup].kind = defaultSceneId

---------------------------------------------------------------------------
(* C24 *)

\* the Scene Host's part: a diagnostic was written, and when the failed call is the
\* latest one and nothing is pending, no cleanup is installed and the root is empty
HostAfterFailure(c) ==
    /\ consoleErrors >= 1
    /\ (Settled /\ c = Len(calls)) => (activeCleanup = 0 /\ sceneRoot = {})

\* C24: after an activateScene() call has ended in a failed mount, the host's part
\* holds and the instance that mount created has no window listener attached, no
\* live device or GPU object and no frame requested.
C24_FailedMountLeavesNothing ==
    \A c \in 1..Len(calls) :
       calls[c].pc = "failed"
          => /\ HostAfterFailure(c)
             /\ Listeners(calls[c].inst) = 0
             /\ LiveGpu(calls[c].inst) = 0
             /\ ~insts[calls[c].inst].raf

\* the part of C24 that the code keeps: the Scene Host's own state after a failure
C24_HostPartOnly ==
    \A c \in 1..Len(calls) : calls[c].pc = "failed" => HostAfterFailure(c)

---------------------------------------------------------------------------
(* C25 *)
\* The compute-boids scene asks for a device with 'timestamp-query' first; when that
\* fails it warns and asks exactly once more, without the feature. A mount whose
\* second request succeeded has no query set, no resolve buffer and never a readback
\* buffer, and the failed first request does not reject the mount: only the second
\* request failing, or the shaders, does.
C25_TimestampFallback ==
    /\ bd.pc # "none" => /\ Len(bd.inits) \in {1, 2}
                         /\ bd.inits[1] = "timestamp-query"
                         /\ bd.warnings = Len(bd.inits) - 1
    /\ Len(bd.inits) = 2 => bd.inits[2] = ""
    /\ bd.pc = "retry" <=> (Len(bd.inits) = 2 /\ bd.device = "none" /\ bd.rejection = "")
    /\ bd.rejection = "init" => Len(bd.inits) = 2 /\ bd.device = "none"
    /\ (Len(bd.inits) = 2 /\ bd.device # "none")
         => /\ ~bd.supportsTimestampQuery
            /\ bd.querySet = "none"
            /\ bd.resolveBuffer = "none"
            /\ bd.buffers = <<>>
            /\ bd.rejection \in {"", "fetchShader"}
            /\ bd.rejection = "" => bd.pc \in {"load", "mounted"}

\* the degraded scene is mounted, has drawn a frame and has been disposed
C25_Witness ==
    /\ bd.pc = "mounted"
    /\ bd.inits = <<"timestamp-query", "">>
    /\ bd.warnings = 1
    /\ bd.lastFrame = "submitted"
    /\ bd.disposed
    /\ bd.buffers = <<>>
---------------------------------------------------------------------------
(* C26 *)
\* A readback buffer of the compute-boids scene whose mapAsync resolves after the
\* scene was disposed leaves the sample count and the stats text as they are, is
\* destroyed by that callback and at no other time, and is not pushed to
\* spareBuffers; from disposal on spareBuffers is empty and no buffer has been
\* destroyed twice.
C26_LateReadbackDiscarded ==
    [][ /\ \A i \in 1..Len(bd.buffers) :
             (bd.disposed /\ bd.buffers[i].state = "mapping"
                 /\ bd'.buffers[i].state # "mapping" /\ bd'.lastMap.resolved)
             => /\ bd'.timerSamples = bd.timerSamples
                /\ bd'.statsText = bd.statsText
                /\ bd.buffers[i].destroys = 0
                /\ bd'.buffers[i] = [state |-> "destroyed", destroys |-> 1]
                /\ bd'.spareBuffers = <<>>
        /\ bd'.disposed => /\ bd'.spareBuffers = <<>>
                           /\ \A i \in 1..Len(bd'.buffers) : bd'.buffers[i].destroys <= 1
      ]_vars

\* the first buffer was mapped, sampled and pooled, then destroyed by the disposal;
\* the second was still being mapped then and its mapping resolved afterwards
C26_Witness ==
    /\ bd.disposed
    /\ Len(bd.buffers) = 2
    /\ bd.lastMap = [buffer |-> 2, resolved |-> TRUE, disposed |-> TRUE]
    /\ bd.buffers[1] = [state |-> "destroyed", destroys |-> 1]
    /\ bd.buffers[2] = [state |-> "destroyed", destroys |-> 1]
    /\ bd.timerSamples = 1
    /\ bd.spareBuffers = <<>>
---------------------------------------------------------------------------
(* C29 *)
\* A frame of the compute-boids scene that reads timestamps back takes the buffer
\* last pushed to spareBuffers when there is one and creates a buffer only when
\* spareBuffers is empty; a buffer is pushed only by the callback of its resolved
\* mapping, unmapped. So every buffer in spareBuffers is unmapped, with no mapping
\* outstanding and not destroyed, and is there once.
C29_SparePool ==
    [][ /\ \A k \in 1..Len(bd'.spareBuffers) :
             /\ bd'.buffers[bd'.spareBuffers[k]] = NewReadback
             /\ \A j \in 1..Len(bd'.spareBuffers) :
                  bd'.spareBuffers[j] = bd'.spareBuffers[k] => j = k
        /\ \A i \in 1..Len(bd'.buffers) :
             (bd'.buffers[i].state = "mapping"
                 /\ (i > Len(bd.buffers) \/ bd.buffers[i].state # "mapping"))
             => IF bd.spareBuffers # <<>>
                THEN /\ i = bd.spareBuffers[Len(bd.spareBuffers)]
                     /\ bd'.spareBuffers = SubSeq(bd.spareBuffers, 1, Len(bd.spareBuffers) - 1)
                     /\ Len(bd'.buffers) = Len(bd.buffers)
                ELSE /\ i = Len(bd.buffers) + 1
                     /\ Len(bd'.buffers) = i
                     /\ bd'.spareBuffers = <<>>
        /\ Len(bd'.buffers) > Len(bd.buffers) => bd.spareBuffers = <<>>
        /\ Len(bd'.spareBuffers) > Len(bd.spareBuffers)
             => \E i \in 1..Len(bd.buffers) :
                  /\ bd.buffers[i].state = "mapping"
                  /\ bd'.lastMap = [buffer |-> i, resolved |-> TRUE, disposed |-> FALSE]
                  /\ bd'.spareBuffers = Append(bd.spareBuffers, i)
      ]_vars

\* two buffers were created, both came back to spareBuffers, and a frame took the one
\* pushed last
C29_Witness ==
    /\ Len(bd.buffers) = 2
    /\ bd.spareBuffers = <<2>>
    /\ bd.buffers[1].state = "mapping"
    /\ bd.buffers[2].state = "unmapped"
    /\ bd.lastMap = [buffer |-> 1, resolved |-> TRUE, disposed |-> FALSE]
    /\ ~bd.disposed
---------------------------------------------------------------------------
(* C27 *)
\* Once a scene's disposeResources has run, by the cleanup or by 'beforeunload', no
\* frame callback of that scene runs past its entry: none requests a further frame,
\* acquires a frame or submits work.
C27_NoFrameAfterDispose ==
    \A i \in 1..Len(insts) : ~insts[i].lateFrame

---------------------------------------------------------------------------
(* C28 *)
\* Whether disposeResources runs from the cleanup alone or from 'beforeunload' and
\* then again from the cleanup, a scene's buffers and textures are destroyed once,
\* its device is destroyed once, and the device is not destroyed before them.
C28_DestroyedOnce ==
    \A i \in 1..Len(insts) :
        /\ insts[i].nBuf <= 1
        /\ insts[i].nDev <= 1
        /\ insts[i].device = "destroyed" => insts[i].buffers = "destroyed"
---------------------------------------------------------------------------
(* C30 *)
\* A surface that DeviceHost.configureSurface has configured holds the alphaMode of
\* the init options' surfaceConfig in its config, and its canvas context was
\* configured with that alphaMode.
C30_AlphaModeForwarded ==
    (sm.config.set /\ sm.context)
        => /\ sm.config.alphaMode = dh.options.alphaMode
           /\ sm.contextAlphaMode = dh.options.alphaMode
---------------------------------------------------------------------------
(* C31 *)
\* C31: no mounted scene is orphaned. A step that installs a mount result as the
\* active cleanup replaces no cleanup that was never invoked, and when every
\* activateScene call has returned, every instance whose mount resolved with a cleanup
\* function, other than the one installed as active, has had that cleanup invoked.
C31_NoOrphan ==
    [][ /\ (activeCleanup' # 0 /\ activeCleanup' # activeCleanup)
            => (activeCleanup = 0 \/ insts[activeCleanup].nInvoked >= 1)
        /\ Settled' =>
             \A i \in 1..Len(insts') :
                 (insts'[i].phase = "mounted" /\ i # activeCleanup')
                     => insts'[i].nInvoked >= 1
      ]_vars

\* three calls have returned: the second replaced the installed first scene, the third
\* began while the second was mounting; the first was cleaned as the outgoing scene,
\* the second as a superseded mount, and the third is installed
C31_Witness ==
    /\ Settled
    /\ Len(calls) = 3
    /\ calls[1].inst # 0 /\ calls[2].out = calls[1].inst
    /\ calls[3].out = 0
    /\ calls[2].inst # 0
    /\ insts[calls[2].inst].phase = "mounted"
    /\ insts[calls[1].inst].nInvoked = 1
    /\ insts[calls[2].inst].nInvoked = 1
    /\ activeCleanup = calls[3].inst
    /\ activeCleanup # 0
    /\ insts[activeCleanup].nInvoked = 0
---------------------------------------------------------------------------
(* C32 *)
\* C32: when every activateScene call has returned and the mount of the most recent
\* one succeeded, the container of the scene it installed is a child of the content
\* root: no older call's root clear or failure handler has removed it.
C32_ActiveContainerInRoot ==
    (Settled /\ calls # <<>> /\ calls[Len(calls)].pc = "done")
        => /\ activeCleanup = calls[Len(calls)].inst
           /\ activeCleanup \in sceneRoot
---------------------------------------------------------------------------
(* C33 *)
\* C33: when every activateScene call has returned, activeSceneId (which the
\* selector's value follows) is the id of the scene whose cleanup is installed as
\* active, however the calls overlapped.
C33_ActiveIdMatchesInstalled ==
    (Settled /\ activeCleanup # 0) => activeSceneId = insts[activeCleanup].kind

\* a call for another scene began while the first call was mounting the default
\* scene; both have returned and the second scene is installed and selected
C33_Witness ==
    /\ Settled
    /\ Len(calls) = 2
    /\ calls[2].out = 0
    /\ calls[1].inst # 0
    /\ calls[1].scene = defaultSceneId
    /\ calls[2].scene = "points"
    /\ activeCleanup = calls[2].inst
    /\ activeCleanup # 0
    /\ activeSceneId = "points"
---------------------------------------------------------------------------
(* C34 *)
\* C34: the registered ids are pairwise distinct and defaultSceneId is one of them;
\* every activateScene call, whatever id string it was given, has resolved a scene to
\* mount, the registered scene with that id if there is one and the default scene
\* otherwise, and no call has thrown the unresolved-scene error.
C34_SceneAlwaysResolved ==
    /\ \A m, n \in 1..Len(scenes) : scenes[m] = scenes[n] => m = n
    /\ defaultSceneId \in SceneIds
    /\ \A c \in 1..Len(calls) :
         /\ calls[c].pc # "unresolved"
         /\ calls[c].scene \in SceneIds
         /\ calls[c].scene = (IF \E n \in 1..Len(scenes) : scenes[n] = calls[c].id
                              THEN calls[c].id ELSE defaultSceneId)

\* an id that names no scene was requested while points was active; the default scene
\* was mounted for it and is installed
C34_Witness ==
    /\ Settled
    /\ Len(calls) = 3
    /\ calls[2].id = "points"
    /\ calls[3].id = "unknown"
    /\ calls[3].scene = "msdf-text"
    /\ calls[3].out = calls[2].inst
    /\ calls[3].pc = "done"
    /\ activeCleanup = calls[3].inst
    /\ activeCleanup # 0
    /\ insts[activeCleanup].kind = "msdf-text"
---------------------------------------------------------------------------
(* C35 *)
\* C35: when the cleanup of the outgoing scene rejects, the activateScene call that
\* awaited it rejects; in that step the active cleanup reference is already empty, the
\* content root keeps its children, activeSceneId stays, and nothing is mounted; the
\* call never mounts a scene, and until a later call installs one no scene is active.
C35_OutgoingCleanupRejects ==
    [][ \A c \in 1..Len(calls) :
          /\ \A r \in 1..Len(runs') :
               (runs'[r].failed /\ runs'[r].w = K("cas_afterCleanup", c, 0, 0))
                   => calls'[c].pc = "rejected"
          /\ (calls'[c].pc = "rejected" /\ calls[c].pc # "rejected")
               => /\ calls[c].pc = "cleaning"
                  /\ activeCleanup = 0 /\ activeCleanup' = 0
                  /\ sceneRoot' = sceneRoot
                  /\ activeSceneId' = activeSceneId
                  /\ Len(insts') = Len(insts)
          /\ calls[c].pc = "rejected"
               => /\ calls'[c] = calls[c]
                  /\ calls[c].inst = 0
                  /\ (c = Len(calls') => activeCleanup' = 0)
      ]_vars

\* the second call replaced the installed msdf-text scene, whose cleanup rejected
\* after it had removed its container and before it disposed its device
C35_Witness ==
    /\ Idle
    /\ Len(calls) = 2
    /\ calls[1].pc = "done"
    /\ calls[2].pc = "rejected"
    /\ calls[2].out = calls[1].inst
    /\ calls[2].scene = "points"
    /\ insts[calls[1].inst].kind = "msdf-text"
    /\ insts[calls[1].inst].device = "live"
    /\ insts[calls[1].inst].nInvoked = 1
    /\ activeCleanup = 0
    /\ activeSceneId = "msdf-text"
    /\ Len(insts) = 1
---------------------------------------------------------------------------
(* C36 *)
\* C36: over the lifetime of a registry the disposer of each entry is invoked at most
\* once, also when disposeAll() is called again after a call that a throwing disposer
\* ended, or while an earlier call is awaiting a disposer.
C36_DisposedAtMostOnce ==
    \A e \in 1..Len(reg.entries) :
        Cardinality({n \in 1..Len(reg.invoked) : reg.invoked[n].entry = e}) <= 1

---------------------------------------------------------------------------
(* C37 *)
\* C37: every entry that disposeAll() has removed from the table had its disposer
\* invoked: when a call has resolved, each entry added before it resolved (also one
\* added while it awaited a disposer, under a new id or an id already visited) that
\* has a disposer and was not replaced by a later add() has been invoked or is still
\* in the table.
C37_RemovedMeansDisposed ==
    [][ \A c \in 1..Len(reg.calls) :
          (reg'.calls[c].pc = "resolved" /\ reg.calls[c].pc # "resolved")
          => \A k \in 1..Len(reg.map) :
                (reg.map[k].key # "" /\ reg.entries[reg.map[k].entry].kind # "none")
                => \/ \E n \in 1..Len(reg'.invoked) :
                        reg'.invoked[n].entry = reg.map[k].entry
                   \/ \E j \in 1..Len(reg'.map) :
                        reg'.map[j].key # "" /\ reg'.map[j].entry = reg.map[k].entry
      ]_vars
---------------------------------------------------------------------------
(* C38 *)
\* C38: whatever configure, resize, acquireFrame and dispose calls a SurfaceManager
\* receives, each depth texture it allocated has been destroyed at most once, the only
\* texture not destroyed is the one the manager holds (so at most one at a time), and
\* after a dispose() every texture it ever allocated has been destroyed.
C38_DepthTexturesDestroyedOnce ==
    /\ \A t \in 1..Len(gpu) :
         /\ gpu[t].destroys <= 1
         /\ gpu[t].live <=> gpu[t].destroys = 0
         /\ gpu[t].live => sm.depthTexture = t
    /\ Cardinality({t \in 1..Len(gpu) : gpu[t].live}) <= 1
    /\ last.op = "dispose" => \A t \in 1..Len(gpu) : ~gpu[t].live /\ gpu[t].destroys = 1

\* a resize() has replaced the depth texture: the first is destroyed, once, and the
\* second is the one the manager holds and a frame shows
C38_Witness ==
    /\ last.op = "acquireFrame"
    /\ ~last.threw
    /\ Len(gpu) = 2
    /\ gpu[1] = [live |-> FALSE, destroys |-> 1]
    /\ gpu[2] = [live |-> TRUE, destroys |-> 0]
    /\ sm.depthTexture = 2
    /\ last.frame.depthView = 2
---------------------------------------------------------------------------
====
